---- MODULE Spec2Model ----
(***************************************************************************)
(* State-machine model of PhotonAPI's rate limiter (photonapi/limiter.py). *)
(*                                                                         *)
(* Time is the value of time.monotonic(), counted in ticks of              *)
(* 1/TicksPerSecond seconds.  Token counts of a TokenBucket are rationals  *)
(* with denominator den (the refill rate is num/den tokens per tick); the  *)
(* field `tokens` holds the numerator, so every comparison of the source   *)
(* is made on exact values.                                                *)
(*                                                                         *)
(* The limiter is the in-process one (redis_client=None, the default).     *)
(***************************************************************************)
EXTENDS Integers, Sequences, FiniteSets, TLC

\* ------------------------------------------------------------------ bounds
MaxTime == 2
NumThreads == 2
MaxCost == 2
MaxCapacity == 2
MaxCalls == 3
MaxLimit == 2
MaxWindow == 2
MaxOps == 3
MaxCount == 10
MaxSlashes == 2
MaxMiddlewares == 3
MaxNextCalls == 2
MaxTimeout == 2
MaxHooks == 2
TicksPerSecond == 2

Threads == 1..NumThreads
Times == 0..MaxTime
Costs == 0..MaxCost

Min(a, b) == IF a <= b THEN a ELSE b
Max(a, b) == IF a >= b THEN a ELSE b

VARIABLES
    clock,      \* time.monotonic()
    tb,         \* the TokenBucket under test
    tb_lock,    \* TokenBucket.lock: 0 when free, else the holding thread
    tbt,        \* per thread: position in consume / remaining and its locals
    tb_stat,    \* history of the consume calls made so far
    sw,         \* the SlidingWindowCounter under test
    sw_lock,    \* SlidingWindowCounter.lock
    swt,        \* per thread: position in hit and its locals
    sw_log,     \* history: how many hits were recorded with each timestamp
    fw,         \* the FixedWindowCounter under test
    fw_lock,    \* FixedWindowCounter.lock
    fwt,        \* per thread: position in hit and its locals
    fw_log,     \* history: total cost of the successful hits at each time
    rl_enabled,   \* RateLimiter.enabled
    rl_strategy,  \* RateLimiter.strategy
    rl_whitelist, \* RateLimiter._whitelist
    rl_blacklist, \* RateLimiter._blacklist
    rl_buckets,   \* RateLimiter._buckets: bucket key -> bucket
    rl_ops,       \* number of calls made on the limiter and its routes
    rl_last,      \* the last request and what its wrapper returned
    rl_log,       \* history: the requests the rate check let through, each
                  \* with its client key, route and time
    pr_parts,     \* the pieces the rate string under test is made of
    pr_text,      \* the rate string _parse_rate is called with
    pr_result,    \* what the call returned or raised
    mw_chain,     \* MiddlewarePipeline._stack: what each middleware does
    mw_handler,   \* what final_handler does
    mw_stack,     \* the activations of execute, innermost last
    mw_pending,   \* the value or exception on its way to the frame below
    mw_log,       \* history: the code run so far, in order
    mw_result,    \* what run returned or raised
    mw_running,   \* run has been called and has not returned
    app_timeout,       \* PhotonAPI.shutdown_timeout, in ticks
    app_shutting_down, \* PhotonAPI._shutting_down
    app_active,        \* PhotonAPI._active_requests
    app_lock,          \* PhotonAPI._active_lock: 0 when free, else the holder
    app_t,             \* per request thread: position in __call__ and locals
    app_sd,            \* position in _graceful_shutdown and its locals
    gs_res,     \* PhotonAPI._task_queue, ._scheduler, .db: what each is
    gs_hooks,   \* PhotonAPI._shutdown_hooks: what each hook does when called
    gs_t,       \* per call of _graceful_shutdown: its position and locals
    gs_done,    \* history: how many times each step of the shutdown was made
    reg_strategy, \* RateLimiter.strategy of the limiter the threads share
    reg_map,      \* RateLimiter._buckets: bucket key -> object in it
    reg_objs,     \* the bucket objects created so far, each with its history
    reg_lock,     \* RateLimiter._lock: 0 when free, else the holding thread
    reg_t,        \* per thread: position in its request and its locals
    reg_calls,    \* number of requests made so far
    reg_last,     \* what the last request that returned was checked against
    reg_log       \* history: the requests the rate check let through

tbVars == <<tb, tb_lock, tbt, tb_stat>>
swVars == <<sw, sw_lock, swt, sw_log>>
fwVars == <<fw, fw_lock, fwt, fw_log>>
rlVars == <<rl_enabled, rl_strategy, rl_whitelist, rl_blacklist, rl_buckets,
            rl_ops, rl_last, rl_log>>
prVars == <<pr_parts, pr_text, pr_result>>
mwVars == <<mw_chain, mw_handler, mw_stack, mw_pending, mw_log, mw_result,
            mw_running>>
appVars == <<app_timeout, app_shutting_down, app_active, app_lock, app_t,
             app_sd>>
gsVars == <<gs_res, gs_hooks, gs_t, gs_done>>
regVars == <<reg_strategy, reg_map, reg_objs, reg_lock, reg_t, reg_calls,
             reg_last, reg_log>>
vars == <<clock, tbVars, swVars, fwVars, rlVars, prVars, mwVars, appVars,
          gsVars, regVars>>
notTB == <<swVars, fwVars, rlVars, prVars, mwVars, appVars, gsVars,
            regVars>>
notSW == <<tbVars, fwVars, rlVars, prVars, mwVars, appVars, gsVars,
            regVars>>
notFW == <<tbVars, swVars, rlVars, prVars, mwVars, appVars, gsVars,
            regVars>>
notRL == <<tbVars, swVars, fwVars, prVars, mwVars, appVars, gsVars,
            regVars>>
notPR == <<tbVars, swVars, fwVars, rlVars, mwVars, appVars, gsVars,
            regVars>>
notMW == <<tbVars, swVars, fwVars, rlVars, prVars, appVars, gsVars,
            regVars>>
notApp == <<tbVars, swVars, fwVars, rlVars, prVars, mwVars, gsVars,
             regVars>>
notGS == <<tbVars, swVars, fwVars, rlVars, prVars, mwVars, regVars>>
notReg == <<tbVars, swVars, fwVars, rlVars, prVars, mwVars, appVars, gsVars>>

\* The clock advances between any two steps of any thread.
Tick ==
    /\ clock < MaxTime
    /\ clock' = clock + 1
    /\ UNCHANGED <<tbVars, swVars, fwVars, rlVars, prVars, mwVars, appVars,
                   gsVars, regVars>>

\* ------------------------------------------------------------ TokenBucket
\* Refill rates num/den (tokens per tick) a bucket is built with.
Rates == {<<0, 1>>, <<1, 1>>, <<1, 2>>}

NewTokenBucket(capacity, num, den, now) ==
    [kind |-> "TokenBucket", capacity |-> capacity, tokens |-> capacity * den,
     num |-> num, den |-> den, last |-> now]

\* Variant: the refill without its cap.
TBRefilledNoCap(b, now) == b.tokens + (now - b.last) * b.num

\* min(self.capacity, self.tokens + elapsed * self.refill_rate)
TBRefilled(b, now) ==
    Min(b.capacity * b.den, b.tokens + (now - b.last) * b.num)

TBAfterRefill(b, now) == [b EXCEPT !.tokens = TBRefilled(b, now), !.last = now]

\* Variant: the comparison made strict.
TBHasTokensStrict(b, cost) == b.tokens > cost * b.den

\* if self.tokens >= cost
TBHasTokens(b, cost) == b.tokens >= cost * b.den

\* self.tokens -= cost
TBSpend(b, cost) == [b EXCEPT !.tokens = @ - cost * b.den]

\* consume as one step (the body runs under self.lock)
TBConsume(b, now, cost) ==
    LET r == TBAfterRefill(b, now)
    IN  IF TBHasTokens(r, cost)
        THEN [ok |-> TRUE, b |-> TBSpend(r, cost)]
        ELSE [ok |-> FALSE, b |-> r]

\* Variant: no mutual exclusion.
TBLockFreeNoMutex(l) == TRUE

\* with self.lock: a thread enters only when no thread holds the lock
TBLockFree(l) == l = 0

TBIdle == [pc |-> "idle", cost |-> 0, now |-> 0, ok |-> FALSE,
           tok0 |-> 0, last0 |-> 0, val |-> 0]

\* TokenBucket(capacity, refill_rate), built at time 0, and no call made yet
TBStart(capacities, rates) ==
    /\ \E c \in capacities, r \in rates :
           tb = NewTokenBucket(c, r[1], r[2], 0)
    /\ tb_lock = 0
    /\ tbt = [t \in Threads |-> TBIdle]
    /\ tb_stat = [calls |-> 0, succ |-> 0, fail |-> 0, unit |-> TRUE]

\* A thread calls consume(cost).
TBCall(t) ==
    /\ tbt[t].pc = "idle"
    /\ tb_stat.calls < MaxCalls
    /\ \E c \in Costs :
         /\ tbt' = [tbt EXCEPT ![t] = [TBIdle EXCEPT !.pc = "acquire", !.cost = c]]
         /\ tb_stat' = [tb_stat EXCEPT !.calls = @ + 1,
                                       !.unit = @ /\ c = 1]
    /\ UNCHANGED <<clock, tb, tb_lock>>
    /\ UNCHANGED notTB

\* with self.lock: now = time.monotonic()
TBAcquire(t) ==
    /\ tbt[t].pc = "acquire"
    /\ TBLockFree(tb_lock)
    /\ tb_lock' = t
    /\ tbt' = [tbt EXCEPT ![t].pc = "refill", ![t].now = clock,
                          ![t].tok0 = tb.tokens, ![t].last0 = tb.last]
    /\ UNCHANGED <<clock, tb, tb_stat>>
    /\ UNCHANGED notTB

\* elapsed = now - self.last_refill; self.tokens = min(...); self.last_refill = now
TBRefillStep(t) ==
    /\ tbt[t].pc = "refill"
    /\ tb' = TBAfterRefill(tb, tbt[t].now)
    /\ tbt' = [tbt EXCEPT ![t].pc = "check"]
    /\ UNCHANGED <<clock, tb_lock, tb_stat>>
    /\ UNCHANGED notTB

\* if self.tokens >= cost
TBCheck(t) ==
    /\ tbt[t].pc = "check"
    /\ tbt' = [tbt EXCEPT ![t].pc = IF TBHasTokens(tb, tbt[t].cost)
                                    THEN "spend" ELSE "release",
                          ![t].ok = TBHasTokens(tb, tbt[t].cost)]
    /\ UNCHANGED <<clock, tb, tb_lock, tb_stat>>
    /\ UNCHANGED notTB

\* self.tokens -= cost
TBSpendStep(t) ==
    /\ tbt[t].pc = "spend"
    /\ tb' = TBSpend(tb, tbt[t].cost)
    /\ tbt' = [tbt EXCEPT ![t].pc = "release"]
    /\ UNCHANGED <<clock, tb_lock, tb_stat>>
    /\ UNCHANGED notTB

\* return True / return False: the lock is released on the way out
TBRelease(t) ==
    /\ tbt[t].pc = "release"
    /\ tb_lock' = 0
    /\ tbt' = [tbt EXCEPT ![t] = TBIdle]
    /\ tb_stat' = IF tbt[t].ok
                  THEN [tb_stat EXCEPT !.succ = @ + 1]
                  ELSE [tb_stat EXCEPT !.fail = @ + 1]
    /\ UNCHANGED <<clock, tb>>
    /\ UNCHANGED notTB

\* The remaining property: with self.lock: now = time.monotonic()
TBRemAcquire(t) ==
    /\ tbt[t].pc = "idle"
    /\ TBLockFree(tb_lock)
    /\ tb_lock' = t
    /\ tbt' = [tbt EXCEPT ![t] = [TBIdle EXCEPT !.pc = "rem", !.now = clock,
                                   !.tok0 = tb.tokens, !.last0 = tb.last]]
    /\ UNCHANGED <<clock, tb, tb_stat>>
    /\ UNCHANGED notTB

\* Variant: remaining stores the refill it computes, as consume does.
TBRemReturnPersisting(t) ==
    /\ tbt[t].pc = "rem"
    /\ tbt' = [tbt EXCEPT ![t].pc = "rem_release",
                          ![t].val = TBRefilled(tb, tbt[t].now)]
    /\ tb' = TBAfterRefill(tb, tbt[t].now)
    /\ UNCHANGED <<clock, tb_lock, tb_stat>>
    /\ UNCHANGED notTB

\* elapsed = now - self.last_refill; return min(self.capacity, ...)
TBRemReturn(t) ==
    /\ tbt[t].pc = "rem"
    /\ tbt' = [tbt EXCEPT ![t].pc = "rem_release",
                          ![t].val = TBRefilled(tb, tbt[t].now)]
    /\ UNCHANGED <<clock, tb, tb_lock, tb_stat>>
    /\ UNCHANGED notTB

\* leaving the with block of remaining
TBRemRelease(t) ==
    /\ tbt[t].pc = "rem_release"
    /\ tb_lock' = 0
    /\ tbt' = [tbt EXCEPT ![t] = TBIdle]
    /\ UNCHANGED <<clock, tb, tb_stat>>
    /\ UNCHANGED notTB

TBNext ==
    \/ Tick
    \/ \E t \in Threads : TBCall(t)
    \/ \E t \in Threads : TBAcquire(t)
    \/ \E t \in Threads : TBRefillStep(t)
    \/ \E t \in Threads : TBCheck(t)
    \/ \E t \in Threads : TBSpendStep(t)
    \/ \E t \in Threads : TBRelease(t)
    \/ \E t \in Threads : TBRemAcquire(t)
    \/ \E t \in Threads : TBRemReturn(t)
    \/ \E t \in Threads : TBRemRelease(t)

\* --------------------------------------------------- SlidingWindowCounter
NewSlidingWindow(limit, window) ==
    [kind |-> "SlidingWindowCounter", limit |-> limit, window |-> window,
     hits |-> <<>>]

\* Variant: a hit exactly window old is kept.
SWKeptInclusive(hits, now, window) ==
    SelectSeq(hits, LAMBDA x : x >= now - window)

\* [t for t in self._hits if t > cutoff], cutoff = now - self.window
SWKept(hits, now, window) ==
    SelectSeq(hits, LAMBDA x : x > now - window)

\* if len(self._hits) + cost <= self.limit
SWAdmits(b, cost) == Len(b.hits) + cost <= b.limit

\* cost copies of now
RECURSIVE Copies(_, _)
Copies(x, n) == IF n <= 0 THEN <<>> ELSE <<x>> \o Copies(x, n - 1)

\* hit as one step (the body runs under self.lock)
SWHit(b, now, cost) ==
    LET kept == [b EXCEPT !.hits = SWKept(b.hits, now, b.window)]
    IN  IF SWAdmits(kept, cost)
        THEN [ok |-> TRUE, b |-> [kept EXCEPT !.hits = @ \o Copies(now, cost)]]
        ELSE [ok |-> FALSE, b |-> kept]

\* max(0, self.limit - current)
SWRemaining(b, now) == Max(0, b.limit - Len(SWKept(b.hits, now, b.window)))

\* self._hits[0] + self.window, or now + self.window when there is no hit
SWResetAt(b, now) ==
    IF b.hits # <<>> THEN b.hits[1] + b.window ELSE now + b.window

\* Variant: no mutual exclusion.
SWLockFreeNoMutex(l) == TRUE

\* with self.lock
SWLockFree(l) == l = 0

NoLog == [x \in Times |-> 0]

SWIdle == [pc |-> "idle", cost |-> 0, now |-> 0, ok |-> FALSE, i |-> 0,
           prev |-> 0, log0 |-> NoLog]

\* Number of hits recorded with a timestamp in lo..hi.
RECURSIVE LogSum(_, _, _)
LogSum(log, lo, hi) ==
    IF lo > hi THEN 0
    ELSE (IF lo \in DOMAIN log THEN log[lo] ELSE 0) + LogSum(log, lo + 1, hi)

\* SlidingWindowCounter(limit, window_seconds), and no call made yet
SWStart(limits, windows) ==
    /\ \E l \in limits, w \in windows : sw = NewSlidingWindow(l, w)
    /\ sw_lock = 0
    /\ swt = [t \in Threads |-> SWIdle]
    /\ sw_log = NoLog

\* A thread calls hit(cost).
SWCall(t) ==
    /\ swt[t].pc = "idle"
    /\ \E c \in Costs :
         swt' = [swt EXCEPT ![t] = [SWIdle EXCEPT !.pc = "acquire", !.cost = c]]
    /\ UNCHANGED <<clock, sw, sw_lock, sw_log>>
    /\ UNCHANGED notSW

\* with self.lock: now = time.monotonic()
SWAcquire(t) ==
    /\ swt[t].pc = "acquire"
    /\ SWLockFree(sw_lock)
    /\ sw_lock' = t
    /\ swt' = [swt EXCEPT ![t].pc = "purge", ![t].now = clock,
                          ![t].prev = LogSum(sw_log, clock - sw.window + 1, clock),
                          ![t].log0 = sw_log]
    /\ UNCHANGED <<clock, sw, sw_log>>
    /\ UNCHANGED notSW

\* cutoff = now - self.window; self._hits = [t for t in self._hits if t > cutoff]
SWPurge(t) ==
    /\ swt[t].pc = "purge"
    /\ sw' = [sw EXCEPT !.hits = SWKept(sw.hits, swt[t].now, sw.window)]
    /\ swt' = [swt EXCEPT ![t].pc = "check"]
    /\ UNCHANGED <<clock, sw_lock, sw_log>>
    /\ UNCHANGED notSW

\* if len(self._hits) + cost <= self.limit
SWCheck(t) ==
    /\ swt[t].pc = "check"
    /\ swt' = [swt EXCEPT ![t].ok = SWAdmits(sw, swt[t].cost),
                          ![t].pc = IF SWAdmits(sw, swt[t].cost) /\ swt[t].cost > 0
                                    THEN "append" ELSE "release"]
    /\ UNCHANGED <<clock, sw, sw_lock, sw_log>>
    /\ UNCHANGED notSW

\* for _ in range(cost): self._hits.append(now)
SWAppend(t) ==
    /\ swt[t].pc = "append"
    /\ sw' = [sw EXCEPT !.hits = Append(@, swt[t].now)]
    /\ sw_log' = [sw_log EXCEPT ![swt[t].now] = @ + 1]
    /\ swt' = [swt EXCEPT ![t].i = @ + 1,
                          ![t].pc = IF swt[t].i + 1 >= swt[t].cost
                                    THEN "release" ELSE "append"]
    /\ UNCHANGED <<clock, sw_lock>>
    /\ UNCHANGED notSW

\* return True / return False: the lock is released on the way out
SWRelease(t) ==
    /\ swt[t].pc = "release"
    /\ sw_lock' = 0
    /\ swt' = [swt EXCEPT ![t] = SWIdle]
    /\ UNCHANGED <<clock, sw, sw_log>>
    /\ UNCHANGED notSW

SWNext ==
    \/ Tick
    \/ \E t \in Threads : SWCall(t)
    \/ \E t \in Threads : SWAcquire(t)
    \/ \E t \in Threads : SWPurge(t)
    \/ \E t \in Threads : SWCheck(t)
    \/ \E t \in Threads : SWAppend(t)
    \/ \E t \in Threads : SWRelease(t)

\* ----------------------------------------------------- FixedWindowCounter
NewFixedWindow(limit, window, now) ==
    [kind |-> "FixedWindowCounter", limit |-> limit, window |-> window,
     count |-> 0, wstart |-> now]

\* Variant: the comparison made strict.
FWExpiredStrict(b, now) == now - b.wstart > b.window

\* if now - self._window_start >= self.window
FWExpired(b, now) == now - b.wstart >= b.window

\* self._count = 0; self._window_start = now
FWRolled(b, now) ==
    IF FWExpired(b, now) THEN [b EXCEPT !.count = 0, !.wstart = now] ELSE b

\* Variant: the cost left out of the comparison.
FWAdmitsIgnoringCost(b, cost) == b.count <= b.limit

\* if self._count + cost <= self.limit
FWAdmits(b, cost) == b.count + cost <= b.limit

\* hit as one step (the body runs under self.lock)
FWHit(b, now, cost) ==
    LET r == FWRolled(b, now)
    IN  IF FWAdmits(r, cost)
        THEN [ok |-> TRUE, b |-> [r EXCEPT !.count = @ + cost]]
        ELSE [ok |-> FALSE, b |-> r]

\* self.limit once the window is over, else max(0, self.limit - self._count)
FWRemaining(b, now) ==
    IF FWExpired(b, now) THEN b.limit ELSE Max(0, b.limit - b.count)

\* self._window_start + self.window
FWResetAt(b) == b.wstart + b.window

\* with self.lock
FWLockFree(l) == l = 0

FWIdle == [pc |-> "idle", cost |-> 0, now |-> 0, ok |-> FALSE,
           count0 |-> 0, wstart0 |-> 0]

\* FixedWindowCounter(limit, window_seconds), built at time 0, no call made yet
FWStart(limits, windows) ==
    /\ \E l \in limits, w \in windows : fw = NewFixedWindow(l, w, 0)
    /\ fw_lock = 0
    /\ fwt = [t \in Threads |-> FWIdle]
    /\ fw_log = NoLog

\* A thread calls hit(cost).
FWCall(t) ==
    /\ fwt[t].pc = "idle"
    /\ \E c \in Costs :
         fwt' = [fwt EXCEPT ![t] = [FWIdle EXCEPT !.pc = "acquire", !.cost = c]]
    /\ UNCHANGED <<clock, fw, fw_lock, fw_log>>
    /\ UNCHANGED notFW

\* with self.lock: now = time.monotonic()
FWAcquire(t) ==
    /\ fwt[t].pc = "acquire"
    /\ FWLockFree(fw_lock)
    /\ fw_lock' = t
    /\ fwt' = [fwt EXCEPT ![t].pc = "roll", ![t].now = clock,
                          ![t].count0 = fw.count, ![t].wstart0 = fw.wstart]
    /\ UNCHANGED <<clock, fw, fw_log>>
    /\ UNCHANGED notFW

\* if now - self._window_start >= self.window: reset the count and the start
FWRoll(t) ==
    /\ fwt[t].pc = "roll"
    /\ fw' = FWRolled(fw, fwt[t].now)
    /\ fwt' = [fwt EXCEPT ![t].pc = "check"]
    /\ UNCHANGED <<clock, fw_lock, fw_log>>
    /\ UNCHANGED notFW

\* if self._count + cost <= self.limit
FWCheck(t) ==
    /\ fwt[t].pc = "check"
    /\ fwt' = [fwt EXCEPT ![t].ok = FWAdmits(fw, fwt[t].cost),
                          ![t].pc = IF FWAdmits(fw, fwt[t].cost)
                                    THEN "add" ELSE "release"]
    /\ UNCHANGED <<clock, fw, fw_lock, fw_log>>
    /\ UNCHANGED notFW

\* self._count += cost
FWAdd(t) ==
    /\ fwt[t].pc = "add"
    /\ fw' = [fw EXCEPT !.count = @ + fwt[t].cost]
    /\ fw_log' = [fw_log EXCEPT ![fwt[t].now] = @ + fwt[t].cost]
    /\ fwt' = [fwt EXCEPT ![t].pc = "release"]
    /\ UNCHANGED <<clock, fw_lock>>
    /\ UNCHANGED notFW

\* return True / return False: the lock is released on the way out
FWRelease(t) ==
    /\ fwt[t].pc = "release"
    /\ fw_lock' = 0
    /\ fwt' = [fwt EXCEPT ![t] = FWIdle]
    /\ UNCHANGED <<clock, fw, fw_log>>
    /\ UNCHANGED notFW

FWNext ==
    \/ Tick
    \/ \E t \in Threads : FWCall(t)
    \/ \E t \in Threads : FWAcquire(t)
    \/ \E t \in Threads : FWRoll(t)
    \/ \E t \in Threads : FWCheck(t)
    \/ \E t \in Threads : FWAdd(t)
    \/ \E t \in Threads : FWRelease(t)

\* ------------------------------------------------------------ _parse_rate
\* Strings are sequences of one-character strings.
DigitChars == <<"0", "1", "2", "3", "4", "5", "6", "7", "8", "9">>
UpperChars == <<"A", "B", "C", "D", "E", "F", "G", "H", "I", "J", "K", "L", "M",
                "N", "O", "P", "Q", "R", "S", "T", "U", "V", "W", "X", "Y", "Z">>
LowerChars == <<"a", "b", "c", "d", "e", "f", "g", "h", "i", "j", "k", "l", "m",
                "n", "o", "p", "q", "r", "s", "t", "u", "v", "w", "x", "y", "z">>
Whitespace == {" ", "\t", "\n"}

IsIn(c, chars) == \E i \in DOMAIN chars : chars[i] = c
IndexIn(c, chars) == CHOOSE i \in DOMAIN chars : chars[i] = c

\* str.strip()
RECURSIVE LStrip(_)
LStrip(s) ==
    IF s # <<>> /\ Head(s) \in Whitespace THEN LStrip(Tail(s)) ELSE s

RECURSIVE RStrip(_)
RStrip(s) ==
    IF s # <<>> /\ s[Len(s)] \in Whitespace
    THEN RStrip(SubSeq(s, 1, Len(s) - 1))
    ELSE s

Strip(s) == RStrip(LStrip(s))

\* str.lower()
Lower(s) ==
    [i \in DOMAIN s |->
        IF IsIn(s[i], UpperChars) THEN LowerChars[IndexIn(s[i], UpperChars)]
        ELSE s[i]]

\* str.split(sep) for a one-character separator
RECURSIVE Split(_, _)
Split(s, sep) ==
    IF \A i \in DOMAIN s : s[i] # sep THEN <<s>>
    ELSE LET i == CHOOSE j \in DOMAIN s :
                      s[j] = sep /\ \A k \in 1..(j - 1) : s[k] # sep
         IN  <<SubSeq(s, 1, i - 1)>> \o Split(SubSeq(s, i + 1, Len(s)), sep)

\* The value of a string of decimal digits.
RECURSIVE DigitsValue(_)
DigitsValue(s) ==
    IF s = <<>> THEN 0
    ELSE 10 * DigitsValue(SubSeq(s, 1, Len(s) - 1))
           + (IndexIn(s[Len(s)], DigitChars) - 1)

\* int(text): blanks around it are dropped, a sign may lead, and digits must
\* follow, single underscores allowed between them; anything else raises
\* ValueError.
IntOf(text) ==
    LET t      == Strip(text)
        signed == t # <<>> /\ t[1] \in {"-", "+"}
        body   == IF signed THEN Tail(t) ELSE t
        ok     == /\ body # <<>>
                  /\ \A i \in DOMAIN body :
                        \/ IsIn(body[i], DigitChars)
                        \/ /\ body[i] = "_"
                           /\ 1 < i /\ i < Len(body)
                           /\ IsIn(body[i - 1], DigitChars)
                           /\ IsIn(body[i + 1], DigitChars)
        digits == SelectSeq(body, LAMBDA c : c # "_")
    IN  [ok |-> ok,
         value |-> IF ~ok THEN 0
                   ELSE IF signed /\ t[1] = "-" THEN 0 - DigitsValue(digits)
                   ELSE DigitsValue(digits)]

\* Variant: the abbreviation "hr" left out of the table.
MultipliersNoHr ==
    (<<"s">> :> 1) @@ (<<"s", "e", "c">> :> 1)
        @@ (<<"s", "e", "c", "o", "n", "d">> :> 1)
    @@ (<<"m">> :> 60) @@ (<<"m", "i", "n">> :> 60)
        @@ (<<"m", "i", "n", "u", "t", "e">> :> 60)
    @@ (<<"h">> :> 3600) @@ (<<"h", "o", "u", "r">> :> 3600)
    @@ (<<"d">> :> 86400) @@ (<<"d", "a", "y">> :> 86400)

\* multipliers: the seconds of each period name
Multipliers ==
    (<<"s">> :> 1) @@ (<<"s", "e", "c">> :> 1)
        @@ (<<"s", "e", "c", "o", "n", "d">> :> 1)
    @@ (<<"m">> :> 60) @@ (<<"m", "i", "n">> :> 60)
        @@ (<<"m", "i", "n", "u", "t", "e">> :> 60)
    @@ (<<"h">> :> 3600) @@ (<<"h", "r">> :> 3600)
        @@ (<<"h", "o", "u", "r">> :> 3600)
    @@ (<<"d">> :> 86400) @@ (<<"d", "a", "y">> :> 86400)

Parsed(count, window) ==
    [done |-> TRUE, ok |-> TRUE, error |-> "none", why |-> "none",
     count |-> count, window |-> window]
Raised(error, why) ==
    [done |-> TRUE, ok |-> FALSE, error |-> error, why |-> why,
     count |-> 0, window |-> 0]
NotParsed ==
    [done |-> FALSE, ok |-> FALSE, error |-> "none", why |-> "none",
     count |-> 0, window |-> 0]

\* _parse_rate(rate_string): (count, window in seconds), or the exception
ParseRate(rate_string) ==
    LET parts == Split(Strip(rate_string), "/")
    IN  IF Len(parts) # 2 THEN Raised("ValueError", "Invalid rate format")
        ELSE LET count  == IntOf(parts[1])
                 period == Lower(Strip(parts[2]))
             IN  IF ~count.ok THEN Raised("ValueError", "invalid literal for int()")
                 ELSE IF period \notin DOMAIN Multipliers
                      THEN Raised("ValueError", "Unknown time period")
                      ELSE Parsed(count.value, Multipliers[period])

\* ------------------------------------------------------------ RateLimiter
\* Client keys and scope names are strings, here sequences of characters.
ClientKeys == {<<"a">>, <<"a", ":", "b">>}

\* _parse_rate's result for the rate strings of the routes: (count, window),
\* the window in ticks.  Every rate is "<count>/second".
Rate(count) == [valid |-> TRUE, count |-> count, window |-> 1 * TicksPerSecond]
BadRate == [valid |-> FALSE, count |-> 0, window |-> 0]

\* The decorated routes, after the pattern of example.py: a limit route with
\* an explicit scope, two shared_limit routes on one scope name, a dynamic
\* route and a per_user route.  The dynamic route has no rate string at
\* decoration time: it gets one from rate_func on every request.
Routes ==
    {[name |-> "submit", kind |-> "limit", scope |-> <<"b", ":", "g">>,
      rate |-> Rate(1), cost |-> 1],
     [name |-> "search", kind |-> "shared_limit", scope |-> <<"g">>,
      rate |-> Rate(2), cost |-> 1],
     [name |-> "suggest", kind |-> "shared_limit", scope |-> <<"g">>,
      rate |-> Rate(2), cost |-> 1],
     [name |-> "feed", kind |-> "dynamic", scope |-> <<"f">>,
      rate |-> BadRate, cost |-> 1],
     [name |-> "profile", kind |-> "per_user", scope |-> <<"p">>,
      rate |-> Rate(1), cost |-> 1]}

RouteNames == {r.name : r \in Routes}

\* What rate_func(req) of the dynamic route may return.
DynRateStrings ==
    {<<"1", "/", "s", "e", "c", "o", "n", "d">>, <<"2", "/", "m">>,
     <<"b", "o", "g", "u", "s">>}

\* count, window = _parse_rate(rate_string), the window in ticks
RateOf(rate_string) ==
    LET parsed == ParseRate(rate_string)
    IN  IF parsed.ok
        THEN [valid |-> TRUE, count |-> parsed.count,
              window |-> parsed.window * TicksPerSecond]
        ELSE BadRate

\* The same, parsed.
DynRates == {RateOf(rate_string) : rate_string \in DynRateStrings}

\* Variant: every route filed under its own name.
RouteScopeByName(r) == <<r.name>>

\* The scope a wrapper files its bucket under: fn_scope / scope_name
RouteScope(r) == r.scope

\* bucket_key = f"{key}:{scope}"
BucketKey(key, scope) == key \o <<":">> \o scope

\* The bucket _get_bucket creates for the configured strategy.
NewBucket(strategy, limit, window, now) ==
    IF strategy = "token-bucket" THEN NewTokenBucket(limit, limit, window, now)
    ELSE IF strategy = "fixed-window" THEN NewFixedWindow(limit, window, now)
    ELSE NewSlidingWindow(limit, window)

\* Variant: a bucket made for another limit is replaced by a new one.
GetBucketForRate(buckets, bk, strategy, limit, window, now) ==
    IF bk \in DOMAIN buckets
          /\ limit = (IF buckets[bk].kind = "TokenBucket"
                      THEN buckets[bk].capacity ELSE buckets[bk].limit)
    THEN buckets
    ELSE [x \in DOMAIN buckets \cup {bk} |->
            IF x = bk THEN NewBucket(strategy, limit, window, now)
            ELSE buckets[x]]

\* _get_bucket: the map with the bucket of bucket_key in it
GetBucket(buckets, bk, strategy, limit, window, now) ==
    IF bk \in DOMAIN buckets THEN buckets
    ELSE [x \in DOMAIN buckets \cup {bk} |->
            IF x = bk THEN NewBucket(strategy, limit, window, now)
            ELSE buckets[x]]

\* bucket.hit(cost) for the two counters, bucket.consume(cost) otherwise
BucketCheck(b, now, cost) ==
    IF b.kind = "SlidingWindowCounter" THEN SWHit(b, now, cost)
    ELSE IF b.kind = "FixedWindowCounter" THEN FWHit(b, now, cost)
    ELSE TBConsume(b, now, cost)

\* hasattr(bucket, 'reset_at'): TokenBucket has no such property
HasResetAt(b) == b.kind # "TokenBucket"

\* bucket.reset_at, in ticks
BucketResetAt(b, now) ==
    IF b.kind = "SlidingWindowCounter" THEN SWResetAt(b, now) ELSE FWResetAt(b)

\* int(x) of x = n / d seconds: the fraction is dropped, towards zero
IntOfQuotient(n, d) == IF n >= 0 THEN n \div d ELSE 0 - ((0 - n) \div d)

\* Variant: without the lower bound of one second.
RetryAfterNoMinimum(bucket, now) ==
    IF bucket = {} THEN 60
    ELSE LET b == CHOOSE x \in bucket : TRUE
         IN  IF ~HasResetAt(b) THEN 60
             ELSE IntOfQuotient(BucketResetAt(b, now) - now, TicksPerSecond)

\* retry_after of _rate_exceeded, in seconds; bucket is {} for None, else
\* holds the bucket that denied the request
RetryAfter(bucket, now) ==
    IF bucket = {} THEN 60
    ELSE LET b == CHOOSE x \in bucket : TRUE
         IN  IF ~HasResetAt(b) THEN 60
             ELSE Max(1, IntOfQuotient(BucketResetAt(b, now) - now,
                                       TicksPerSecond))

\* _rate_exceeded(req, res, bucket, limit, ...): what it was called with and
\* the 429 response it builds, with its Retry-After header and the limit of
\* its payload
RateExceeded(bucket, limit, now) ==
    [called |-> TRUE, bucket |-> bucket, now |-> now,
     status |-> 429, retry_after |-> RetryAfter(bucket, now), limit |-> limit]
NotExceeded ==
    [called |-> FALSE, bucket |-> {}, now |-> 0,
     status |-> 0, retry_after |-> 0, limit |-> 0]

Outcome(res, buckets, admitted) ==
    [res |-> res, buckets |-> buckets, admitted |-> admitted,
     exceeded |-> NotExceeded]

\* return self._rate_exceeded(req, res, bucket, count, ...)
Denied(buckets, bucket, limit) ==
    [res |-> "429", buckets |-> buckets, admitted |-> FALSE,
     exceeded |-> RateExceeded(bucket, limit, clock)]

\* The part of a wrapper from _get_bucket on: look the bucket up, check it,
\* call the route handler or answer 429 through _rate_exceeded.
Checked(key, scope, limit, window, cost) ==
    LET bk == BucketKey(key, scope)
        bs == GetBucket(rl_buckets, bk, rl_strategy, limit, window, clock)
        h  == BucketCheck(bs[bk], clock, cost)
    IN  IF h.ok THEN Outcome("handler", [bs EXCEPT ![bk] = h.b], TRUE)
        ELSE Denied([bs EXCEPT ![bk] = h.b], {h.b}, limit)

\* The wrapper of limit (per_user is limit with another key function).
LimitWrapper(r, key) ==
    IF ~rl_enabled THEN Outcome("handler", rl_buckets, FALSE)
    ELSE IF key \in rl_whitelist THEN Outcome("handler", rl_buckets, FALSE)
    ELSE IF key \in rl_blacklist THEN Denied(rl_buckets, {}, r.rate.count)
    ELSE Checked(key, RouteScope(r), r.rate.count, r.rate.window, r.cost)

\* The wrapper of shared_limit.
SharedWrapper(r, key) ==
    IF ~rl_enabled THEN Outcome("handler", rl_buckets, FALSE)
    ELSE IF key \in rl_whitelist THEN Outcome("handler", rl_buckets, FALSE)
    ELSE Checked(key, RouteScope(r), r.rate.count, r.rate.window, r.cost)

\* The wrapper of dynamic: the rate is parsed on every request, and a rate
\* string _parse_rate rejects makes the request fail with its ValueError.
DynamicWrapper(r, key, rate) ==
    IF ~rl_enabled THEN Outcome("handler", rl_buckets, FALSE)
    ELSE IF ~rate.valid THEN Outcome("ValueError", rl_buckets, FALSE)
    ELSE Checked(key, RouteScope(r), rate.count, rate.window, 1)

Wrapper(r, key, rate) ==
    IF r.kind = "dynamic" THEN DynamicWrapper(r, key, rate)
    ELSE IF r.kind = "shared_limit" THEN SharedWrapper(r, key)
    ELSE LimitWrapper(r, key)

\* The history entry of one more request let through: the nth of that
\* client key on that route at that time.
Admission(log, key, route, now) ==
    [key |-> key, route |-> route, time |-> now,
     nth |-> 1 + Cardinality({e \in log : /\ e.key = key /\ e.route = route
                                           /\ e.time = now})]

NoRequest ==
    [route |-> "none", kind |-> "none", key |-> <<>>, res |-> "none",
     exceeded |-> NotExceeded]

\* RateLimiter(strategy=..., enabled=...), no route called yet
RLStart(strategies, enabledness) ==
    /\ rl_enabled \in enabledness
    /\ rl_strategy \in strategies
    /\ rl_whitelist = {}
    /\ rl_blacklist = {}
    /\ rl_buckets = <<>>
    /\ rl_ops = 0
    /\ rl_last = NoRequest
    /\ rl_log = {}

\* whitelist_key(key)
WhitelistKey(key) ==
    /\ rl_ops < MaxOps
    /\ rl_ops' = rl_ops + 1
    /\ rl_whitelist' = rl_whitelist \cup {key}
    /\ UNCHANGED <<clock, rl_enabled, rl_strategy, rl_blacklist, rl_buckets,
                   rl_last, rl_log>>
    /\ UNCHANGED notRL

\* blacklist_key(key)
BlacklistKey(key) ==
    /\ rl_ops < MaxOps
    /\ rl_ops' = rl_ops + 1
    /\ rl_blacklist' = rl_blacklist \cup {key}
    /\ UNCHANGED <<clock, rl_enabled, rl_strategy, rl_whitelist, rl_buckets,
                   rl_last, rl_log>>
    /\ UNCHANGED notRL

\* A request for route r whose client key is key; rate is what rate_func
\* returns for it when the route is the dynamic one.
Request(r, key, rate) ==
    /\ rl_ops < MaxOps
    /\ rl_ops' = rl_ops + 1
    /\ LET o == Wrapper(r, key, rate)
       IN  /\ rl_buckets' = o.buckets
           /\ rl_last' = [route |-> r.name, kind |-> r.kind, key |-> key,
                          res |-> o.res, exceeded |-> o.exceeded]
           /\ rl_log' = IF o.admitted
                        THEN rl_log \cup {Admission(rl_log, key, r.name, clock)}
                        ELSE rl_log
    /\ UNCHANGED <<clock, rl_enabled, rl_strategy, rl_whitelist, rl_blacklist>>
    /\ UNCHANGED notRL

RLNext ==
    \/ Tick
    \/ \E k \in ClientKeys : WhitelistKey(k)
    \/ \E k \in ClientKeys : BlacklistKey(k)
    \/ \E r \in Routes, k \in ClientKeys :
          \E rate \in (IF r.kind = "dynamic" THEN DynRates ELSE {r.rate}) :
              Request(r, k, rate)

\* ------------------------------------------------- calls of _parse_rate
\* The decimal text of a natural number.
RECURSIVE Decimal(_)
Decimal(n) ==
    IF n < 10 THEN <<DigitChars[n + 1]>>
    ELSE Decimal(n \div 10) \o <<DigitChars[(n % 10) + 1]>>

\* The rate strings _parse_rate is called with: a count text, a period text,
\* slashes between and after them, blanks around each part.
CountTexts ==
    {[text |-> Decimal(n), int |-> TRUE, n |-> n] : n \in 0..MaxCount}
    \cup {[text |-> <<"-", "1">>, int |-> TRUE, n |-> 0 - 1]}
    \cup {[text |-> t, int |-> FALSE, n |-> 0] :
             t \in {<<>>, <<"x">>, <<"1", ".", "5">>, <<"1", "_">>,
                    <<"b", "o", "g", "u", "s">>}}
    \cup {[text |-> <<"1", "_", "0">>, int |-> FALSE, n |-> 10]}

PeriodNames ==
    {<<"s">>, <<"s", "e", "c">>, <<"s", "e", "c", "o", "n", "d">>,
     <<"m">>, <<"m", "i", "n">>, <<"m", "i", "n", "u", "t", "e">>,
     <<"h">>, <<"h", "r">>, <<"h", "o", "u", "r">>, <<"d">>, <<"d", "a", "y">>,
     <<>>, <<"w", "e", "e", "k">>, <<"m", "i", "n", "u", "t", "e", "s">>,
     <<"m", "o">>}

Capitalized(s) ==
    [i \in DOMAIN s |->
        IF i = 1 /\ IsIn(s[i], LowerChars)
        THEN UpperChars[IndexIn(s[i], LowerChars)] ELSE s[i]]

Slashes(n) == [i \in 1..n |-> "/"]
Blanks == {<<>>, <<" ">>}

RateParts ==
    [count : CountTexts, period : PeriodNames, capital : BOOLEAN,
     between : 0..MaxSlashes, after : 0..MaxSlashes,
     lead : Blanks, mid : Blanks, trail : Blanks]

RateString(p) ==
    p.lead \o p.count.text \o Slashes(p.between) \o p.mid
        \o (IF p.capital THEN Capitalized(p.period) ELSE p.period)
        \o Slashes(p.after) \o p.trail

PRStart ==
    /\ pr_parts \in {p \in RateParts : p.between + p.after <= MaxSlashes}
    /\ pr_text = RateString(pr_parts)
    /\ pr_result = NotParsed

\* The call _parse_rate(rate_string)
ParseRateCall ==
    /\ ~pr_result.done
    /\ pr_result' = ParseRate(pr_text)
    /\ UNCHANGED <<clock, pr_parts, pr_text>>
    /\ UNCHANGED notPR

PRNext == ParseRateCall

\* ------------------------------------- RateLimiter: one limiter, threads
\* Requests made by several threads on one route of one limiter, followed
\* through _get_bucket step by step.  The buckets are objects: the map holds
\* references to them, and so does a thread between _get_bucket and its
\* bucket.hit / bucket.consume.  An object is named by its position in
\* reg_objs; 0 stands for a {} made by the default factory of _buckets
\* (defaultdict(dict)).
RegRoute == CHOOSE r \in Routes : r.name = "profile"

RegIdle == [pc |-> "idle", key |-> <<>>, bucket |-> 0]

NoCheck == [key |-> <<>>, bucket |-> 0, res |-> "none"]

\* A bucket object: the bucket, the key it was made for, and when it was
\* made and last used.
Object(b, bk, now) == [b |-> b, key |-> bk, born |-> now, used |-> now]

\* RateLimiter(strategy=...), a route decorated, no request yet
RegStart(strategies) ==
    /\ reg_strategy \in strategies
    /\ reg_map = <<>>
    /\ reg_objs = <<>>
    /\ reg_lock = 0
    /\ reg_t = [t \in Threads |-> RegIdle]
    /\ reg_calls = 0
    /\ reg_last = NoCheck
    /\ reg_log = {}

\* Time goes on, a second at a time, far enough for a hit to be more than
\* two windows old.
RegTick ==
    /\ clock <= 2 * RegRoute.rate.window
    /\ clock' = clock + TicksPerSecond
    /\ UNCHANGED regVars
    /\ UNCHANGED notReg

\* The wrapper of the route is called with a request of client key k and
\* gets as far as bucket = self._get_bucket(client_key, fn_scope, count,
\* window): bucket_key = f"{key}:{scope}"
GBCall(t, k) ==
    /\ reg_t[t].pc = "idle"
    /\ reg_calls < MaxCalls
    /\ reg_calls' = reg_calls + 1
    /\ reg_t' = [reg_t EXCEPT ![t] = [pc |-> "acquire",
                                      key |-> BucketKey(k, RouteScope(RegRoute)),
                                      bucket |-> 0]]
    /\ UNCHANGED <<clock, reg_strategy, reg_map, reg_objs, reg_lock, reg_last,
                   reg_log>>
    /\ UNCHANGED notReg

\* Variant: no mutual exclusion.
RegLockFreeNoMutex(l) == TRUE

\* with self._lock
RegLockFree(l) == l = 0

\* with self._lock: if bucket_key not in self._buckets
GBAcquire(t) ==
    /\ reg_t[t].pc = "acquire"
    /\ RegLockFree(reg_lock)
    /\ reg_lock' = t
    /\ reg_t' = [reg_t EXCEPT ![t].pc = IF reg_t[t].key \notin DOMAIN reg_map
                                        THEN "create" ELSE "release"]
    /\ UNCHANGED <<clock, reg_strategy, reg_map, reg_objs, reg_calls, reg_last,
                   reg_log>>
    /\ UNCHANGED notReg

\* self._buckets[bucket_key] = TokenBucket(...) / FixedWindowCounter(...) /
\* SlidingWindowCounter(...)
GBCreate(t) ==
    /\ reg_t[t].pc = "create"
    /\ LET bk == reg_t[t].key
           b == NewBucket(reg_strategy, RegRoute.rate.count,
                          RegRoute.rate.window, clock)
       IN  /\ reg_objs' = Append(reg_objs, Object(b, bk, clock))
           /\ reg_map' = [x \in DOMAIN reg_map \cup {bk} |->
                            IF x = bk THEN Len(reg_objs) + 1 ELSE reg_map[x]]
    /\ reg_t' = [reg_t EXCEPT ![t].pc = "release"]
    /\ UNCHANGED <<clock, reg_strategy, reg_lock, reg_calls, reg_last, reg_log>>
    /\ UNCHANGED notReg

\* the end of the with block
GBRelease(t) ==
    /\ reg_t[t].pc = "release"
    /\ reg_lock' = 0
    /\ reg_t' = [reg_t EXCEPT ![t].pc = "return"]
    /\ UNCHANGED <<clock, reg_strategy, reg_map, reg_objs, reg_calls, reg_last,
                   reg_log>>
    /\ UNCHANGED notReg

\* return self._buckets[bucket_key], outside the with block: a key that is
\* not in the defaultdict is put in with a {} for value, and that is returned
GBReturn(t) ==
    /\ reg_t[t].pc = "return"
    /\ LET bk == reg_t[t].key
       IN  IF bk \in DOMAIN reg_map
           THEN /\ reg_t' = [reg_t EXCEPT ![t].pc = "check",
                                          ![t].bucket = reg_map[bk]]
                /\ reg_map' = reg_map
           ELSE /\ reg_t' = [reg_t EXCEPT ![t].pc = "check", ![t].bucket = 0]
                /\ reg_map' = [x \in DOMAIN reg_map \cup {bk} |->
                                 IF x = bk THEN 0 ELSE reg_map[x]]
    /\ UNCHANGED <<clock, reg_strategy, reg_objs, reg_lock, reg_calls, reg_last,
                   reg_log>>
    /\ UNCHANGED notReg

\* if isinstance(bucket, (SlidingWindowCounter, FixedWindowCounter)):
\* bucket.hit(actual_cost), else bucket.consume(actual_cost); then the
\* handler or _rate_exceeded.  A dict has no consume: AttributeError.
GBCheck(t) ==
    /\ reg_t[t].pc = "check"
    /\ LET id == reg_t[t].bucket
           bk == reg_t[t].key
       IN  IF id = 0
           THEN /\ reg_last' = [key |-> bk, bucket |-> id,
                                res |-> "AttributeError"]
                /\ UNCHANGED <<reg_objs, reg_log>>
           ELSE LET h == BucketCheck(reg_objs[id].b, clock, RegRoute.cost)
                IN  /\ reg_objs' = [reg_objs EXCEPT ![id].b = h.b,
                                                    ![id].used = clock]
                    /\ reg_last' = [key |-> bk, bucket |-> id,
                                    res |-> IF h.ok THEN "handler" ELSE "429"]
                    /\ reg_log' = IF h.ok
                                  THEN reg_log \cup
                                       {Admission(reg_log, bk, RegRoute.name,
                                                  clock)}
                                  ELSE reg_log
    /\ reg_t' = [reg_t EXCEPT ![t] = RegIdle]
    /\ UNCHANGED <<clock, reg_strategy, reg_map, reg_lock, reg_calls>>
    /\ UNCHANGED notReg

\* reset(): with self._lock: self._buckets.clear()
Reset ==
    /\ RegLockFree(reg_lock)
    /\ reg_map' = <<>>
    /\ UNCHANGED <<clock, reg_strategy, reg_objs, reg_lock, reg_t, reg_calls,
                   reg_last, reg_log>>
    /\ UNCHANGED notReg

\* if isinstance(bucket, SlidingWindowCounter): if not bucket._hits or
\* (now - bucket._hits[-1]) > bucket.window * 2
Expired(id, now) ==
    /\ id # 0
    /\ reg_objs[id].b.kind = "SlidingWindowCounter"
    /\ LET b == reg_objs[id].b
       IN  b.hits = <<>> \/ now - b.hits[Len(b.hits)] > b.window * 2

\* _cleanup_expired(): with self._lock: the expired keys are collected and
\* deleted
CleanupExpired ==
    /\ RegLockFree(reg_lock)
    /\ reg_map' = [x \in {bk \in DOMAIN reg_map : ~Expired(reg_map[bk], clock)}
                     |-> reg_map[x]]
    /\ UNCHANGED <<clock, reg_strategy, reg_objs, reg_lock, reg_t, reg_calls,
                   reg_last, reg_log>>
    /\ UNCHANGED notReg

\* The steps of the requests
GBNext ==
    \/ RegTick
    \/ \E t \in Threads :
          \/ \E k \in ClientKeys : GBCall(t, k)
          \/ GBAcquire(t)
          \/ GBCreate(t)
          \/ GBRelease(t)
          \/ GBReturn(t)
          \/ GBCheck(t)

RegNext ==
    \/ GBNext
    \/ Reset
    \/ CleanupExpired

\* ----------------------------------------------------- MiddlewarePipeline
\* What a middleware does with its continuation next_mw: how many times it
\* calls it, whether it raises before the first call or after the last one,
\* whether it catches what a call raises, and whether it returns what the
\* last call returned or a value of its own.
Behaviour(calls, raises, catches, returns) ==
    [calls |-> calls, raises |-> raises, catches |-> catches,
     returns |-> returns]

Behaviours ==
    {Behaviour(1, "no", FALSE, "next"), Behaviour(1, "no", FALSE, "own"),
     Behaviour(0, "no", FALSE, "own"), Behaviour(0, "before", FALSE, "own"),
     Behaviour(1, "after", FALSE, "own"), Behaviour(1, "no", TRUE, "next")}
    \cup {Behaviour(k, "no", FALSE, "next") : k \in 2..MaxNextCalls}

\* Values passed up the chain: what final_handler returns, what middleware i
\* returns of its own, what it has when it caught an exception, and the
\* exception raised by middleware i or by final_handler (i = len(chain)).
Returned(v) == [kind |-> "value", value |-> v]
Exception(i) == [kind |-> "error", value |-> <<"raised by", i>>]
Nothing == [kind |-> "none", value |-> <<>>]

Event(ev, i) == [ev |-> ev, at |-> i]

\* The activation of execute(index): made counts the calls of next_mw so far
\* (called_next is made > 0), got is what the last of them returned.
Frame(index) == [index |-> index, pc |-> "execute", made |-> 0, got |-> Nothing]

Top(stack) == stack[Len(stack)]
Pop(stack) == SubSeq(stack, 1, Len(stack) - 1)
SetTop(stack, frame) == [stack EXCEPT ![Len(stack)] = frame]

\* Variant: the chain taken in reverse.
ChainOrderReversed(n) == [i \in 1..n |-> n - i]

\* chain = list(self._stack): the n middlewares, each named by its position
\* in the order of registration, counted from 0
ChainOrder(n) == [i \in 1..n |-> i - 1]

\* mw = chain[index]
MwAt(index) == ChainOrder(Len(mw_chain))[index + 1]

\* Variant: the result of a middleware that did not call next_mw is dropped.
ExecuteReturnUnlessShort(called_next, result) ==
    IF called_next THEN result ELSE Returned(<<"none">>)

\* if not called_next: return result / return result
ExecuteReturn(called_next, result) == result

\* Variant: execute turns an exception into a returned value.
LeavesExecuteCaught(exc) == Returned(<<"caught by execute">>)

\* An exception raised inside an activation of execute, by final_handler or
\* by mw and not caught by mw: execute has no try, it leaves as it is
LeavesExecute(exc) == exc

\* The runs of final_handler so far; the value one returns names its run.
HandlerRuns(log) == Len(SelectSeq(log, LAMBDA x : x.ev = "handle"))

\* Variant: next_mw runs the rest of the chain on its first call only.
NextMwGuardedOnce(called_next) == called_next

\* next_mw: called_next = True; return execute(index + 1), with no test of
\* called_next before it: no call of the continuation is turned away
NextMwGuarded(called_next) == FALSE

\* A pipeline with its middlewares added, before run is called
MWStart ==
    /\ mw_chain \in UNION {[1..n -> Behaviours] : n \in 0..MaxMiddlewares}
    /\ mw_handler \in {"returns", "raises"}
    /\ mw_stack = <<>>
    /\ mw_pending = Nothing
    /\ mw_log = <<>>
    /\ mw_result = Nothing
    /\ mw_running = FALSE

\* run(req, res, final_handler): return execute(0)
MWRun ==
    /\ ~mw_running /\ mw_result = Nothing
    /\ mw_running' = TRUE
    /\ mw_stack' = <<Frame(0)>>
    /\ UNCHANGED <<clock, mw_chain, mw_handler, mw_pending, mw_log, mw_result>>
    /\ UNCHANGED notMW

\* execute(index): past the end of the chain it is final_handler(req, res);
\* otherwise mw(req, res, next_mw) is entered and runs up to its first call
\* of next_mw.
MWExecute ==
    /\ mw_running /\ mw_pending = Nothing /\ mw_stack # <<>>
    /\ Top(mw_stack).pc = "execute"
    /\ LET f == Top(mw_stack)
       IN  IF f.index >= Len(mw_chain)
           THEN /\ mw_log' = Append(mw_log, Event("handle", f.index))
                /\ mw_stack' = Pop(mw_stack)
                /\ mw_pending' = IF mw_handler = "raises"
                                 THEN LeavesExecute(Exception(f.index))
                                 ELSE Returned(<<"handler", HandlerRuns(mw_log) + 1>>)
           ELSE /\ mw_log' = Append(mw_log, Event("enter", MwAt(f.index)))
                /\ mw_stack' = SetTop(mw_stack, [f EXCEPT !.pc = "body"])
                /\ mw_pending' = mw_pending
    /\ UNCHANGED <<clock, mw_chain, mw_handler, mw_result, mw_running>>
    /\ UNCHANGED notMW

\* The middleware on top of the stack goes on: it raises, calls next_mw
\* (called_next = True; return execute(index + 1)), or runs its code after
\* the continuation and returns; execute returns that result.
MWBody ==
    /\ mw_running /\ mw_pending = Nothing /\ mw_stack # <<>>
    /\ Top(mw_stack).pc = "body"
    /\ LET f == Top(mw_stack)
           m == MwAt(f.index)
           b == mw_chain[m + 1]
       IN  IF b.raises = "before"
           THEN /\ mw_stack' = Pop(mw_stack)
                /\ mw_pending' = LeavesExecute(Exception(m))
                /\ mw_log' = mw_log
           ELSE IF f.made < b.calls
           THEN /\ mw_stack' =
                       IF NextMwGuarded(f.made > 0)
                       THEN SetTop(mw_stack, [f EXCEPT !.made = @ + 1])
                       ELSE Append(SetTop(mw_stack, [f EXCEPT !.made = @ + 1]),
                                   Frame(f.index + 1))
                /\ mw_pending' = mw_pending
                /\ mw_log' = mw_log
           ELSE IF b.raises = "after"
           THEN /\ mw_stack' = Pop(mw_stack)
                /\ mw_pending' = LeavesExecute(Exception(m))
                /\ mw_log' = mw_log
           ELSE /\ mw_stack' = Pop(mw_stack)
                /\ mw_pending' =
                       ExecuteReturn(f.made > 0,
                                     IF b.returns = "next" /\ f.made > 0 THEN f.got
                                     ELSE Returned(<<"middleware", m>>))
                /\ mw_log' = IF f.made > 0
                             THEN Append(mw_log, Event("exit", m))
                             ELSE mw_log
    /\ UNCHANGED <<clock, mw_chain, mw_handler, mw_result, mw_running>>
    /\ UNCHANGED notMW

\* A return value or an exception arrives where execute was called: at the
\* call of next_mw in the middleware below, or at the caller of run.  execute
\* and next_mw have no try, so an exception the middleware does not catch
\* goes on to the frame below.
MWDeliver ==
    /\ mw_running /\ mw_pending # Nothing
    /\ IF mw_stack = <<>>
       THEN /\ mw_result' = mw_pending
            /\ mw_running' = FALSE
            /\ mw_pending' = Nothing
            /\ UNCHANGED <<mw_stack, mw_log>>
       ELSE LET f == Top(mw_stack)
                m == MwAt(f.index)
                b == mw_chain[m + 1]
            IN  /\ UNCHANGED <<mw_result, mw_running>>
                /\ IF mw_pending.kind = "value"
                   THEN /\ mw_stack' = SetTop(mw_stack, [f EXCEPT !.got = mw_pending])
                        /\ mw_pending' = Nothing
                        /\ mw_log' = mw_log
                   ELSE /\ mw_log' = Append(mw_log, Event("error", m))
                        /\ IF b.catches
                           THEN /\ mw_stack' = SetTop(mw_stack,
                                       [f EXCEPT !.got = Returned(<<"caught", m>>)])
                                /\ mw_pending' = Nothing
                           ELSE /\ mw_stack' = Pop(mw_stack)
                                /\ mw_pending' = LeavesExecute(mw_pending)
    /\ UNCHANGED <<clock, mw_chain, mw_handler>>
    /\ UNCHANGED notMW

MWNext == MWRun \/ MWExecute \/ MWBody \/ MWDeliver

\* ------------------------------------------- PhotonAPI: requests, shutdown
\* A request thread outside __call__
AppIdle == [pc |-> "idle", loaded |-> 0, late |-> FALSE, path |-> "none"]

\* The threads between the increment and the decrement of _active_requests.
InFlight ==
    {t \in Threads : app_t[t].pc \in {"check", "dispatch", "dec_lock",
                                      "dec_store"}}

\* Variant: no mutual exclusion.
AppLockFreeNoMutex(l) == TRUE

\* with self._active_lock
AppLockFree(l) == l = 0

\* Variant: the deadline left out of the loop condition.
BeforeDeadlineAlways(now, deadline) == TRUE

\* time.time() < deadline
BeforeDeadline(now, deadline) == now < deadline

\* _graceful_shutdown not called yet
SDIdle == [pc |-> "idle", deadline |-> 0, ended |-> "no", reported |-> <<>>]

\* PhotonAPI(shutdown_timeout=...), serving, no request yet
AppStart ==
    /\ app_timeout \in 0..MaxTimeout
    /\ app_shutting_down = FALSE
    /\ app_active = 0
    /\ app_lock = 0
    /\ app_t = [t \in Threads |-> AppIdle]
    /\ app_sd = SDIdle

\* time.time() goes on.  Only _graceful_shutdown reads it, and only to
\* compare it with its deadline, so time is counted from the moment the
\* deadline is computed and up to the deadline.
AppTick ==
    /\ app_sd.pc \in {"wait", "wait_time", "sleep"}
    /\ clock < app_sd.deadline
    /\ clock' = clock + 1
    /\ UNCHANGED appVars
    /\ UNCHANGED notApp

\* __call__(environ, start_response) is entered by thread t: req and res are
\* built.  late notes that shutdown had begun when the request arrived.
AppCall(t) ==
    /\ app_t[t].pc = "idle"
    /\ app_t' = [app_t EXCEPT ![t] = [pc |-> "inc_lock", loaded |-> 0,
                                      late |-> app_shutting_down,
                                      path |-> "none"]]
    /\ UNCHANGED <<clock, app_timeout, app_shutting_down, app_active, app_lock,
                   app_sd>>
    /\ UNCHANGED notApp

\* with self._active_lock: self._active_requests += 1, up to the read
AppIncLoad(t) ==
    /\ app_t[t].pc = "inc_lock"
    /\ AppLockFree(app_lock)
    /\ app_lock' = t
    /\ app_t' = [app_t EXCEPT ![t].pc = "inc_store", ![t].loaded = app_active]
    /\ UNCHANGED <<clock, app_timeout, app_shutting_down, app_active, app_sd>>
    /\ UNCHANGED notApp

\* self._active_requests += 1: the write, and the lock is released
AppIncStore(t) ==
    /\ app_t[t].pc = "inc_store"
    /\ app_active' = app_t[t].loaded + 1
    /\ app_lock' = 0
    /\ app_t' = [app_t EXCEPT ![t].pc = "check", ![t].loaded = 0]
    /\ UNCHANGED <<clock, app_timeout, app_shutting_down, app_sd>>
    /\ UNCHANGED notApp

\* Variant: the request goes on without the test of _shutting_down.
AppCheckNoFlag(t, served) ==
    /\ app_t[t].pc = "check"
    /\ app_t' = IF served
                THEN [app_t EXCEPT ![t].pc = "dec_lock", ![t].path = "static"]
                ELSE [app_t EXCEPT ![t].pc = "dispatch"]
    /\ UNCHANGED <<clock, app_timeout, app_shutting_down, app_active, app_lock,
                   app_sd>>
    /\ UNCHANGED notApp

\* if self._shutting_down: the 503 response with Connection: close;
\* if self._serve_static(req, res): the file; otherwise on to the pipeline
AppCheck(t, served) ==
    /\ app_t[t].pc = "check"
    /\ app_t' = IF app_shutting_down
                THEN [app_t EXCEPT ![t].pc = "dec_lock", ![t].path = "503"]
                ELSE IF served
                THEN [app_t EXCEPT ![t].pc = "dec_lock", ![t].path = "static"]
                ELSE [app_t EXCEPT ![t].pc = "dispatch"]
    /\ UNCHANGED <<clock, app_timeout, app_shutting_down, app_active, app_lock,
                   app_sd>>
    /\ UNCHANGED notApp

\* How self._middleware.run(req, res, dispatch) can end: the handler's
\* response, a middleware's own response, a StreamResponse, an exception.
PipelineOutcomes == {"response", "short-circuit", "stream", "exception"}

\* result = self._middleware.run(req, res, dispatch) and the return, or the
\* exception that leaves __call__
AppDispatch(t, outcome) ==
    /\ app_t[t].pc = "dispatch"
    /\ app_t' = [app_t EXCEPT ![t].pc = "dec_lock", ![t].path = outcome]
    /\ UNCHANGED <<clock, app_timeout, app_shutting_down, app_active, app_lock,
                   app_sd>>
    /\ UNCHANGED notApp

\* finally: with self._active_lock: self._active_requests -= 1, up to the
\* read
AppDecLoad(t) ==
    /\ app_t[t].pc = "dec_lock"
    /\ AppLockFree(app_lock)
    /\ app_lock' = t
    /\ app_t' = [app_t EXCEPT ![t].pc = "dec_store", ![t].loaded = app_active,
                              ![t].path = "none"]
    /\ UNCHANGED <<clock, app_timeout, app_shutting_down, app_active, app_sd>>
    /\ UNCHANGED notApp

\* self._active_requests -= 1: the write; the lock is released and __call__
\* is left
AppDecStore(t) ==
    /\ app_t[t].pc = "dec_store"
    /\ app_active' = app_t[t].loaded - 1
    /\ app_lock' = 0
    /\ app_t' = [app_t EXCEPT ![t] = AppIdle]
    /\ UNCHANGED <<clock, app_timeout, app_shutting_down, app_sd>>
    /\ UNCHANGED notApp

\* _graceful_shutdown is called (SIGINT, SIGTERM or the finally of run):
\* if self._shutting_down: return
SDTrigger ==
    /\ app_sd.pc = "idle"
    /\ app_sd' = [app_sd EXCEPT !.pc = IF app_shutting_down THEN "returned"
                                       ELSE "set_flag"]
    /\ UNCHANGED <<clock, app_timeout, app_shutting_down, app_active, app_lock,
                   app_t>>
    /\ UNCHANGED notApp

\* self._shutting_down = True
SDSetFlag ==
    /\ app_sd.pc = "set_flag"
    /\ app_shutting_down' = TRUE
    /\ app_sd' = [app_sd EXCEPT !.pc = "deadline"]
    /\ UNCHANGED <<clock, app_timeout, app_active, app_lock, app_t>>
    /\ UNCHANGED notApp

\* deadline = time.time() + self.shutdown_timeout
SDDeadline ==
    /\ app_sd.pc = "deadline"
    /\ app_sd' = [app_sd EXCEPT !.pc = "wait", !.deadline = clock + app_timeout]
    /\ UNCHANGED <<clock, app_timeout, app_shutting_down, app_active, app_lock,
                   app_t>>
    /\ UNCHANGED notApp

\* while self._active_requests > 0 ...
SDWaitCount ==
    /\ app_sd.pc = "wait"
    /\ app_sd' = IF app_active > 0 THEN [app_sd EXCEPT !.pc = "wait_time"]
                 ELSE [app_sd EXCEPT !.pc = "warn", !.ended = "drained"]
    /\ UNCHANGED <<clock, app_timeout, app_shutting_down, app_active, app_lock,
                   app_t>>
    /\ UNCHANGED notApp

\* ... and time.time() < deadline:
SDWaitTime ==
    /\ app_sd.pc = "wait_time"
    /\ app_sd' = IF BeforeDeadline(clock, app_sd.deadline)
                 THEN [app_sd EXCEPT !.pc = "sleep"]
                 ELSE [app_sd EXCEPT !.pc = "warn", !.ended = "deadline"]
    /\ UNCHANGED <<clock, app_timeout, app_shutting_down, app_active, app_lock,
                   app_t>>
    /\ UNCHANGED notApp

\* time.sleep(0.1)
SDSleep ==
    /\ app_sd.pc = "sleep"
    /\ app_sd' = [app_sd EXCEPT !.pc = "wait"]
    /\ UNCHANGED <<clock, app_timeout, app_shutting_down, app_active, app_lock,
                   app_t>>
    /\ UNCHANGED notApp

\* if self._active_requests > 0:
SDWarnCheck ==
    /\ app_sd.pc = "warn"
    /\ app_sd' = [app_sd EXCEPT !.pc = IF app_active > 0 THEN "report"
                                       ELSE "teardown"]
    /\ UNCHANGED <<clock, app_timeout, app_shutting_down, app_active, app_lock,
                   app_t>>
    /\ UNCHANGED notApp

\* print(f"{self._active_requests} requests still in flight, forcing shutdown")
SDReport ==
    /\ app_sd.pc = "report"
    /\ app_sd' = [app_sd EXCEPT !.pc = "teardown", !.reported = <<app_active>>]
    /\ UNCHANGED <<clock, app_timeout, app_shutting_down, app_active, app_lock,
                   app_t>>
    /\ UNCHANGED notApp

\* The task queue, the scheduler and the database are shut down, the
\* shutdown hooks are run and the server is told to stop.
SDTeardown ==
    /\ app_sd.pc = "teardown"
    /\ app_sd' = [app_sd EXCEPT !.pc = "done"]
    /\ UNCHANGED <<clock, app_timeout, app_shutting_down, app_active, app_lock,
                   app_t>>
    /\ UNCHANGED notApp

\* The steps of _graceful_shutdown once it has been called
SDNext ==
    \/ SDSetFlag
    \/ SDDeadline
    \/ SDWaitCount
    \/ SDWaitTime
    \/ SDSleep
    \/ SDWarnCheck
    \/ SDReport
    \/ SDTeardown

AppNext ==
    \/ AppTick
    \/ \E t \in Threads :
          \/ AppCall(t)
          \/ AppIncLoad(t)
          \/ AppIncStore(t)
          \/ \E served \in BOOLEAN : AppCheck(t, served)
          \/ \E outcome \in PipelineOutcomes : AppDispatch(t, outcome)
          \/ AppDecLoad(t)
          \/ AppDecStore(t)
    \/ SDTrigger
    \/ SDNext

\* ------------------------------- PhotonAPI: the calls of _graceful_shutdown
\* _graceful_shutdown followed through its teardown, for several calls of
\* it: the handler of a signal runs between two instructions of whatever is
\* running, the handler of another signal included, and run calls
\* _graceful_shutdown from its finally.  No request is in flight here.
Callers == {"SIGINT", "SIGTERM", "run"}

Resources == <<"task_queue", "scheduler", "database">>

\* What a call of shutdown() / close() on a resource, or of a hook, does.
CallOutcomes == {"returns", "raises"}

GSIdle == [pc |-> "idle", i |-> 0]

\* One more execution of step k is noted.  The steps of a shutdown are
\* numbered in the order of the code: 1 the drain, then the resources, then
\* the hooks in the order of their registration, last the server's shutdown.
Done(done, k) == [done EXCEPT ![k] = @ + 1]

\* An application with any of its task queue, scheduler and database set up
\* (None otherwise) and its shutdown hooks registered
GSStart ==
    /\ gs_res \in [1..Len(Resources) -> {"None"} \cup CallOutcomes]
    /\ gs_hooks \in UNION {[1..n -> CallOutcomes] : n \in 0..MaxHooks}
    /\ gs_t = [c \in Callers |-> GSIdle]
    /\ gs_done = [k \in 1..(Len(Resources) + Len(gs_hooks) + 2) |-> 0]

\* signal.signal(signal.SIGINT, self._graceful_shutdown), and the same for
\* SIGTERM: the signal arrives and its handler is entered
GSSignal(c) ==
    /\ c # "run"
    /\ gs_t[c].pc = "idle"
    /\ gs_t' = [gs_t EXCEPT ![c].pc = "test"]
    /\ UNCHANGED <<clock, appVars, gs_res, gs_hooks, gs_done>>
    /\ UNCHANGED notGS

\* run: finally: if not self._shutting_down: self._graceful_shutdown()
GSRunFinally(c) ==
    /\ c = "run"
    /\ gs_t[c].pc = "idle"
    /\ gs_t' = [gs_t EXCEPT ![c].pc = IF ~app_shutting_down THEN "test"
                                      ELSE "returned"]
    /\ UNCHANGED <<clock, appVars, gs_res, gs_hooks, gs_done>>
    /\ UNCHANGED notGS

\* if self._shutting_down: return
GSTest(c) ==
    /\ gs_t[c].pc = "test"
    /\ gs_t' = [gs_t EXCEPT ![c].pc = IF app_shutting_down THEN "returned"
                                      ELSE "set_flag"]
    /\ UNCHANGED <<clock, appVars, gs_res, gs_hooks, gs_done>>
    /\ UNCHANGED notGS

\* self._shutting_down = True
GSSetFlag(c) ==
    /\ gs_t[c].pc = "set_flag"
    /\ app_shutting_down' = TRUE
    /\ gs_t' = [gs_t EXCEPT ![c].pc = "drain"]
    /\ UNCHANGED <<clock, app_timeout, app_active, app_lock, app_t, app_sd,
                   gs_res, gs_hooks, gs_done>>
    /\ UNCHANGED notGS

\* deadline = ...; while self._active_requests > 0 and ...; if
\* self._active_requests > 0: with no request in flight the loop is left at
\* its first test and nothing is reported
GSDrain(c) ==
    /\ gs_t[c].pc = "drain"
    /\ ~(app_active > 0)
    /\ gs_done' = Done(gs_done, 1)
    /\ gs_t' = [gs_t EXCEPT ![c].pc = "teardown", ![c].i = 1]
    /\ UNCHANGED <<clock, appVars, gs_res, gs_hooks>>
    /\ UNCHANGED notGS

\* if self._task_queue: self._task_queue.shutdown(wait=True)
\* if self._scheduler: self._scheduler.shutdown()
\* if self.db: self.db.close()
\* one after the other, outside any try: what one of them raises leaves
\* _graceful_shutdown
GSTeardown(c) ==
    /\ gs_t[c].pc = "teardown"
    /\ LET i == gs_t[c].i
       IN  /\ gs_done' = IF gs_res[i] = "None" THEN gs_done
                         ELSE Done(gs_done, 1 + i)
           /\ gs_t' = IF gs_res[i] = "raises"
                      THEN [gs_t EXCEPT ![c].pc = "raised"]
                      ELSE IF i < Len(Resources)
                      THEN [gs_t EXCEPT ![c].i = i + 1]
                      ELSE [gs_t EXCEPT ![c].pc = "hooks", ![c].i = 0]
    /\ UNCHANGED <<clock, appVars, gs_res, gs_hooks>>
    /\ UNCHANGED notGS

\* try: hook() except Exception: pass
CaughtInHookLoop(outcome) == outcome = "raises"

\* for hook in self._shutdown_hooks: the next hook is called
GSHook(c) ==
    /\ gs_t[c].pc = "hooks"
    /\ gs_t[c].i < Len(gs_hooks)
    /\ LET i == gs_t[c].i + 1
       IN  /\ gs_done' = Done(gs_done, 1 + Len(Resources) + i)
           /\ gs_t' = IF gs_hooks[i] = "returns" \/ CaughtInHookLoop(gs_hooks[i])
                      THEN [gs_t EXCEPT ![c].i = i]
                      ELSE [gs_t EXCEPT ![c].pc = "raised"]
    /\ UNCHANGED <<clock, appVars, gs_res, gs_hooks>>
    /\ UNCHANGED notGS

\* print("Shutdown complete"); if self._server: self._server.shutdown()
GSServer(c) ==
    /\ gs_t[c].pc = "hooks"
    /\ gs_t[c].i >= Len(gs_hooks)
    /\ gs_done' = Done(gs_done, Len(gs_done))
    /\ gs_t' = [gs_t EXCEPT ![c].pc = "done"]
    /\ UNCHANGED <<clock, appVars, gs_res, gs_hooks>>
    /\ UNCHANGED notGS

GSNext ==
    \E c \in Callers :
        \/ GSSignal(c)
        \/ GSRunFinally(c)
        \/ GSTest(c)
        \/ GSSetFlag(c)
        \/ GSDrain(c)
        \/ GSTeardown(c)
        \/ GSHook(c)
        \/ GSServer(c)

\* --------------------------------------------------------- specifications
\* Each specification exercises one object; the objects of the other classes
\* are not constructed in it.
NoTB == tb = 0 /\ tb_lock = 0 /\ tbt = 0 /\ tb_stat = 0
NoSW == sw = 0 /\ sw_lock = 0 /\ swt = 0 /\ sw_log = 0
NoFW == fw = 0 /\ fw_lock = 0 /\ fwt = 0 /\ fw_log = 0
NoRL ==
    /\ rl_enabled = 0 /\ rl_strategy = 0 /\ rl_whitelist = 0 /\ rl_blacklist = 0
    /\ rl_buckets = 0 /\ rl_ops = 0 /\ rl_last = 0 /\ rl_log = 0
NoPR == pr_parts = 0 /\ pr_text = 0 /\ pr_result = 0
NoMW ==
    /\ mw_chain = 0 /\ mw_handler = 0 /\ mw_stack = 0 /\ mw_pending = 0
    /\ mw_log = 0 /\ mw_result = 0 /\ mw_running = 0
NoApp ==
    /\ app_timeout = 0 /\ app_shutting_down = 0 /\ app_active = 0
    /\ app_lock = 0 /\ app_t = 0 /\ app_sd = 0
NoGS == gs_res = 0 /\ gs_hooks = 0 /\ gs_t = 0 /\ gs_done = 0
NoReg ==
    /\ reg_strategy = 0 /\ reg_map = 0 /\ reg_objs = 0 /\ reg_lock = 0
    /\ reg_t = 0 /\ reg_calls = 0 /\ reg_last = 0 /\ reg_log = 0

TBInit ==
    /\ clock = 0
    /\ TBStart(1..MaxCapacity, Rates)
    /\ NoSW /\ NoFW /\ NoRL /\ NoPR /\ NoMW /\ NoApp /\ NoGS
    /\ NoReg

SpecTB == TBInit /\ [][TBNext]_vars

SWInit ==
    /\ clock = 0
    /\ SWStart(0..MaxLimit, 1..MaxWindow)
    /\ NoTB /\ NoFW /\ NoRL /\ NoPR /\ NoMW /\ NoApp /\ NoGS
    /\ NoReg

SpecSW == SWInit /\ [][SWNext]_vars

FWInit ==
    /\ clock = 0
    /\ FWStart(0..MaxLimit, 1..MaxWindow)
    /\ NoTB /\ NoSW /\ NoRL /\ NoPR /\ NoMW /\ NoApp /\ NoGS
    /\ NoReg

SpecFW == FWInit /\ [][FWNext]_vars

Strategies == {"token-bucket", "fixed-window", "sliding-window"}

\* RateLimiter(strategy=..., enabled=...) with any strategy, enabled or not
RLInit ==
    /\ clock = 0
    /\ RLStart(Strategies, BOOLEAN)
    /\ NoTB /\ NoSW /\ NoFW /\ NoPR /\ NoMW /\ NoApp /\ NoGS
    /\ NoReg

SpecRL == RLInit /\ [][RLNext]_vars

\* The limiter as example.py builds it: RateLimiter(strategy="sliding-window")
RLSlidingInit ==
    /\ clock = 0
    /\ RLStart({"sliding-window"}, {TRUE})
    /\ NoTB /\ NoSW /\ NoFW /\ NoPR /\ NoMW /\ NoApp /\ NoGS
    /\ NoReg

SpecRLSliding == RLSlidingInit /\ [][RLNext]_vars

\* Calls of _parse_rate on its own
PRInit ==
    /\ clock = 0
    /\ PRStart
    /\ NoTB /\ NoSW /\ NoFW /\ NoRL /\ NoMW /\ NoApp /\ NoGS
    /\ NoReg

SpecPR == PRInit /\ [][PRNext]_vars

\* One run of a MiddlewarePipeline
MWInit ==
    /\ clock = 0
    /\ MWStart
    /\ NoTB /\ NoSW /\ NoFW /\ NoRL /\ NoPR /\ NoApp /\ NoGS
    /\ NoReg

SpecMW == MWInit /\ [][MWNext]_vars

\* A PhotonAPI application serving requests on its threads, and its shutdown
\* Threads that make their requests on one limiter, and nothing else
BucketsInit ==
    /\ clock = 0
    /\ RegStart(Strategies)
    /\ NoTB /\ NoSW /\ NoFW /\ NoRL /\ NoPR /\ NoMW /\ NoApp /\ NoGS

SpecBuckets == BucketsInit /\ [][GBNext]_vars

\* The limiter as example.py builds it, RateLimiter(strategy="sliding-window"),
\* with reset() and _cleanup_expired() called at any moment
RegistryInit ==
    /\ clock = 0
    /\ RegStart({"sliding-window"})
    /\ NoTB /\ NoSW /\ NoFW /\ NoRL /\ NoPR /\ NoMW /\ NoApp /\ NoGS

SpecRegistry == RegistryInit /\ [][RegNext]_vars

\* The same limiter with request threads and the cleanup only (no reset()).
CleanupNext == GBNext \/ CleanupExpired

SpecCleanup == RegistryInit /\ [][CleanupNext]_vars

GSInit ==
    /\ clock = 0
    /\ AppStart /\ app_timeout = 0
    /\ GSStart
    /\ NoTB /\ NoSW /\ NoFW /\ NoRL /\ NoPR /\ NoMW /\ NoReg

SpecGS == GSInit /\ [][GSNext]_vars

AppInit ==
    /\ clock = 0
    /\ AppStart
    /\ NoTB /\ NoSW /\ NoFW /\ NoRL /\ NoPR /\ NoMW /\ NoGS
    /\ NoReg

SpecApp == AppInit /\ [][AppNext]_vars

\* The same where the shutdown, once called, keeps running and time goes on;
\* nothing makes a request thread go on.
SpecAppFair == SpecApp /\ WF_vars(SDNext) /\ WF_vars(AppTick)

\* ----------------------------------------------------------------- claims

\* Every consume call made so far has returned.
TBQuiescent == \A t \in Threads : tbt[t].pc = "idle"

\* C1: with zero refill rate and capacity C, once N concurrent consume(1)
\* calls have all returned, exactly min(N, C) of them succeeded and the other
\* N - min(N, C) failed, each success took one token from the bucket (none is
\* spent twice), and at no moment are there more successes than tokens.
C1_ConcurrentConsume ==
    (tb.num = 0 /\ tb_stat.unit) =>
        /\ tb_stat.succ <= tb.capacity
        /\ TBQuiescent =>
             /\ tb_stat.succ = Min(tb_stat.calls, tb.capacity)
             /\ tb_stat.fail = tb_stat.calls - Min(tb_stat.calls, tb.capacity)
             /\ tb.tokens = (tb.capacity - tb_stat.succ) * tb.den

\* More calls than tokens were made, concurrently, and all have returned.
C1_Witness ==
    /\ tb.num = 0 /\ tb_stat.unit /\ TBQuiescent
    /\ tb_stat.calls > tb.capacity
    /\ tb_stat.succ = tb.capacity
    /\ tb_stat.fail > 0

\* C2: whatever consume(cost) calls (cost >= 0) and remaining reads are made,
\* and however the clock advances between them, 0 <= tokens <= capacity.
C2_TokensInRange ==
    /\ tb.tokens >= 0
    /\ tb.tokens <= tb.capacity * tb.den

\* A refill that the cap cut short, after tokens had been spent.
C2_Witness ==
    \E t \in Threads :
        /\ tbt[t].pc = "check"
        /\ tbt[t].tok0 < tb.capacity * tb.den
        /\ tbt[t].tok0 + (tbt[t].now - tbt[t].last0) * tb.num > tb.capacity * tb.den
        /\ tb.tokens = tb.capacity * tb.den

\* The refilled value consume computes from the state it found.
TBExpectedRefill(t) ==
    LET grown == tbt[t].tok0 + (tbt[t].now - tbt[t].last0) * tb.num
    IN  IF grown < tb.capacity * tb.den THEN grown ELSE tb.capacity * tb.den

\* C3: consume(cost) first sets tokens to min(capacity, tokens + elapsed *
\* refill_rate) and last_refill to now; it then succeeds and subtracts cost
\* iff the refilled value is >= cost, and otherwise fails leaving tokens at
\* the refilled value.
C3_ConsumeContract ==
    \A t \in Threads :
        /\ tbt[t].pc \in {"check", "spend"} =>
             /\ tb.tokens = TBExpectedRefill(t)
             /\ tb.last = tbt[t].now
        /\ tbt[t].pc = "release" =>
             /\ tbt[t].ok = (TBExpectedRefill(t) >= tbt[t].cost * tb.den)
             /\ tb.tokens = IF tbt[t].ok
                            THEN TBExpectedRefill(t) - tbt[t].cost * tb.den
                            ELSE TBExpectedRefill(t)
             /\ tb.last = tbt[t].now

\* A consume that succeeds only thanks to the refill it has just made.
C3_Witness ==
    \E t \in Threads :
        /\ tbt[t].pc = "release"
        /\ tbt[t].ok
        /\ tbt[t].tok0 < tbt[t].cost * tb.den
        /\ tbt[t].now > tbt[t].last0

\* C4: for one SlidingWindowCounter, under any interleaving of hit calls, the
\* hits recorded with timestamps in any trailing interval (t - window, t]
\* never number more than limit (each successful hit records cost of them),
\* and the retained timestamp list never holds more than limit entries.
C4_SlidingWindowBound ==
    /\ \A t \in Times : LogSum(sw_log, t - sw.window + 1, t) <= sw.limit
    /\ Len(sw.hits) <= sw.limit

\* A hit succeeds into a window that is then full, after older hits expired.
C4_Witness ==
    \E t \in Threads :
        /\ swt[t].pc = "release" /\ swt[t].ok /\ swt[t].cost > 0
        /\ Len(sw.hits) = sw.limit
        /\ LogSum(sw_log, 0, MaxTime) > sw.limit

\* C5: hit(cost) succeeds iff the number of previously recorded hits with a
\* timestamp in (now - window, now] plus cost is <= limit; on success exactly
\* cost timestamps equal to now are recorded, on failure none is.
C5_HitContract ==
    \A t \in Threads :
        /\ swt[t].pc \in {"append", "release"} =>
             swt[t].ok = (swt[t].prev + swt[t].cost <= sw.limit)
        /\ swt[t].pc = "release" =>
             /\ sw_log = IF swt[t].ok
                         THEN [swt[t].log0 EXCEPT ![swt[t].now] = @ + swt[t].cost]
                         ELSE swt[t].log0
             /\ Len(sw.hits) = swt[t].prev + (IF swt[t].ok THEN swt[t].cost ELSE 0)

\* A hit that succeeds only because older hits have left the window.
C5_Witness ==
    \E t \in Threads :
        /\ swt[t].pc = "release" /\ swt[t].ok /\ swt[t].cost > 0
        /\ swt[t].prev > 0
        /\ LogSum(swt[t].log0, 0, MaxTime) + swt[t].cost > sw.limit

\* C6: for one FixedWindowCounter, count <= limit at all times, and the
\* successful hits inside any time interval of length window (its two end
\* points included) cost at most 2 * limit in total.
C6_FixedWindowBound ==
    /\ fw.count <= fw.limit
    /\ \A a \in Times : LogSum(fw_log, a, a + fw.window) <= 2 * fw.limit

\* An interval shorter than window that straddles a window boundary and holds
\* successful hits costing more than limit.
C6_Witness ==
    \E a \in Times :
        /\ a < fw.wstart /\ fw.wstart < a + fw.window
        /\ a + fw.window - 1 <= MaxTime
        /\ LogSum(fw_log, a, a + fw.window - 1) > fw.limit
        /\ fw.limit > 0

\* C7: if now - window_start >= window when hit is called, the call sets
\* count to 0 and window_start to now before applying cost, so a hit with
\* cost <= limit then succeeds; if now - window_start < window, the call
\* neither resets count nor changes window_start.
C7_FixedWindowReset ==
    \A t \in Threads :
        LET over == fwt[t].now - fwt[t].wstart0 >= fw.window
        IN  /\ fwt[t].pc \in {"check", "add"} =>
                 IF over
                 THEN fw.count = 0 /\ fw.wstart = fwt[t].now
                 ELSE fw.count = fwt[t].count0 /\ fw.wstart = fwt[t].wstart0
            /\ fwt[t].pc = "release" =>
                 /\ (over /\ fwt[t].cost <= fw.limit) =>
                        (fwt[t].ok /\ fw.count = fwt[t].cost)
                 /\ fw.wstart = IF over THEN fwt[t].now ELSE fwt[t].wstart0
                 /\ ~over => fw.count = fwt[t].count0
                                  + (IF fwt[t].ok THEN fwt[t].cost ELSE 0)

\* A hit arriving exactly window after window_start, on a full counter.
C7_Witness ==
    \E t \in Threads :
        /\ fwt[t].pc = "release" /\ fwt[t].ok /\ fwt[t].cost > 0
        /\ fwt[t].now - fwt[t].wstart0 = fw.window
        /\ fwt[t].count0 = fw.limit

\* C8: for every rate-limited route wrapper (limit, shared_limit, dynamic,
\* per_user), a request whose client key is whitelisted reaches the route
\* handler, creates no bucket and changes no bucket's state.
C8_WhitelistBypass ==
    [][\A r \in Routes, k \in ClientKeys, rate \in DynRates :
          (Request(r, k, rate) /\ k \in rl_whitelist /\ rate.valid) =>
              (rl_last'.res = "handler" /\ rl_buckets' = rl_buckets)]_vars

\* C9: for every rate-limited route wrapper (limit, shared_limit, dynamic) of
\* an enabled limiter, a request whose client key is blacklisted and not
\* whitelisted is answered 429 and the route handler is not invoked, whatever
\* the state of the buckets.
C9_BlacklistDenied ==
    [][\A r \in Routes, k \in ClientKeys, rate \in DynRates :
          (Request(r, k, rate) /\ rl_enabled /\ rate.valid
             /\ k \in rl_blacklist /\ k \notin rl_whitelist) =>
              rl_last'.res = "429"]_vars

\* The scope names shared_limit routes are registered under, and the routes
\* of each.
SharedScopes == {r.scope : r \in {x \in Routes : x.kind = "shared_limit"}}
SharedRoutes ==
    [g \in SharedScopes |->
        {r \in Routes : r.kind = "shared_limit" /\ r.scope = g}]

\* Requests of client key k the rate check let through on the routes named
\* in names, with a time in lo..hi.
AdmittedOn(names, k, lo, hi) ==
    Cardinality({e \in rl_log : /\ e.key = k /\ e.route \in names
                                 /\ lo <= e.time /\ e.time <= hi})

\* C10: the shared_limit routes of one scope name share one bucket per client
\* key.  With the sliding-window strategy, the requests of one client that
\* the rate check lets through on all those routes together, in any window
\* (t - window, t], never number more than the configured limit; and the
\* quota the client's bucket still offers is at most the limit minus what
\* was let through on all those routes in the current window.
C10_SharedScopeQuota ==
    rl_strategy = "sliding-window" =>
        \A k \in ClientKeys, g \in SharedScopes :
            LET rs == {x.name : x \in SharedRoutes[g]}
                r  == CHOOSE x \in SharedRoutes[g] : TRUE
                bk == BucketKey(k, g)
                W  == r.rate.window
                L  == r.rate.count
            IN  /\ \A t \in Times : AdmittedOn(rs, k, t - W + 1, t) <= L
                /\ IF bk \in DOMAIN rl_buckets
                   THEN SWRemaining(rl_buckets[bk], clock)
                            <= L - AdmittedOn(rs, k, clock - W + 1, clock)
                   ELSE AdmittedOn(rs, k, 0, MaxTime) = 0

\* A client used its quota up on two routes of the scope and is then denied.
C10_Witness ==
    /\ rl_strategy = "sliding-window"
    /\ rl_last.kind = "shared_limit" /\ rl_last.res = "429"
    /\ \A r \in Routes :
          r.kind = "shared_limit" =>
              AdmittedOn({r.name}, rl_last.key,
                         clock - r.rate.window + 1, clock) >= 1

\* What the limiter holds for the pair (client key k, scope name s): the
\* bucket its requests are checked against, none before the first one.
QuotaOf(buckets, k, s) ==
    IF BucketKey(k, s) \in DOMAIN buckets THEN {buckets[BucketKey(k, s)]}
    ELSE {}

\* C11: requests share a bucket only when they have the same (client key,
\* scope name) pair, whatever characters the two strings hold: a request of
\* one pair never changes what the limiter holds for a different pair.
C11_PairIsolation ==
    [][\A r \in Routes, k \in ClientKeys, rate \in DynRates :
          Request(r, k, rate) =>
              \A r2 \in Routes, k2 \in ClientKeys :
                  <<k2, RouteScope(r2)>> # <<k, RouteScope(r)>> =>
                      QuotaOf(rl_buckets', k2, RouteScope(r2))
                          = QuotaOf(rl_buckets, k2, RouteScope(r2))]_vars

\* The period names and their seconds as the rate-spec contract lists them.
C12_Seconds ==
    [p \in {<<"s">>, <<"s", "e", "c">>, <<"s", "e", "c", "o", "n", "d">>,
            <<"m">>, <<"m", "i", "n">>, <<"m", "i", "n", "u", "t", "e">>,
            <<"h">>, <<"h", "r">>, <<"h", "o", "u", "r">>,
            <<"d">>, <<"d", "a", "y">>} |->
        IF p[1] = "s" THEN 1
        ELSE IF p[1] = "m" THEN 60
        ELSE IF p[1] = "h" THEN 3600
        ELSE 86400]

\* The contract of _parse_rate with err as the error of a rejected string.
\* A string made of the decimal text of an integer, one '/' and a listed
\* period name gives (that integer, the listed seconds); a string whose
\* number of '/' is not one, or whose period (blanks and letter case aside)
\* is not listed, is rejected with err.
C12_Contract(err) ==
    pr_result.done =>
        LET p       == pr_parts
            slashes == Cardinality({i \in DOMAIN pr_text : pr_text[i] = "/"})
            listed  == p.period \in DOMAIN C12_Seconds
            exact   == /\ p.count.int /\ p.between = 1 /\ p.after = 0
                       /\ listed /\ ~p.capital
                       /\ p.lead = <<>> /\ p.mid = <<>> /\ p.trail = <<>>
        IN  /\ exact =>
                 /\ pr_result.ok
                 /\ pr_result.count = p.count.n
                 /\ pr_result.window = C12_Seconds[p.period]
            /\ (slashes # 1 \/ ~listed) =>
                 /\ ~pr_result.ok
                 /\ pr_result.error = err

C13_NoParseFailureAtRequestTime == rl_last.res # "ValueError"

\* The limit a route is configured with: the count of its rate string, which
\* for the dynamic route is the count rate_func gave for the request.
ConfiguredLimits(route) ==
    IF route = "feed" THEN {rate.count : rate \in {x \in DynRates : x.valid}}
    ELSE {r.rate.count : r \in {x \in Routes : x.name = route}}

\* max(1, floor(resetAt - now)) seconds for the bucket b that denied a
\* request at time now
C14_RetryAfter(b, now) ==
    Max(1, (BucketResetAt(b, now) - now) \div TicksPerSecond)

\* The bucket check denied the last request.
C14_DeniedByBucket == rl_last.exceeded.called /\ rl_last.exceeded.bucket # {}

C15_OnionLog(n) ==
    [i \in 1..(2 * n + 1) |->
        IF i <= n THEN Event("enter", i - 1)
        ELSE IF i = n + 1 THEN Event("handle", n)
        ELSE Event("exit", 2 * n + 1 - i)]

\* Every middleware calls its continuation exactly once and nothing raises.
C15_AllCallOnce ==
    /\ mw_handler = "returns"
    /\ \A i \in DOMAIN mw_chain :
          mw_chain[i].calls = 1 /\ mw_chain[i].raises = "no"

\* C15: for N middlewares that each call their continuation exactly once, run
\* executes the code before the continuation in registration order 0..N-1,
\* then the terminal handler exactly once, then the code after the
\* continuation in reverse order N-1..0.
C15_OnionOrder ==
    C15_AllCallOnce =>
        LET expected == C15_OnionLog(Len(mw_chain))
        IN  /\ Len(mw_log) <= Len(expected)
            /\ mw_log = SubSeq(expected, 1, Len(mw_log))
            /\ mw_result # Nothing => mw_log = expected

\* A run through three such middlewares has returned.
C15_Witness ==
    /\ C15_AllCallOnce
    /\ Len(mw_chain) = 3
    /\ mw_result.kind = "value"
    /\ Len(mw_log) = 7

\* Middleware k returns without calling its continuation, and each of the
\* middlewares before it calls its continuation once and does not raise.
C16_ShortCircuitAt(k) ==
    /\ k + 1 \in DOMAIN mw_chain
    /\ mw_chain[k + 1].calls = 0 /\ mw_chain[k + 1].raises = "no"
    /\ \A i \in 1..k : mw_chain[i].calls = 1 /\ mw_chain[i].raises = "no"

\* The log of such a run: in through middlewares 0..k, out through k-1..0.
C16_ShortLog(k) ==
    [i \in 1..(2 * k + 1) |->
        IF i <= k + 1 THEN Event("enter", i - 1)
        ELSE Event("exit", 2 * k + 1 - i)]

\* C16: if middleware k does not invoke its continuation, no middleware with
\* index > k and no terminal handler runs; what middleware k returns is what
\* the continuation of middleware k-1 returns (what run returns when k = 0);
\* and only the code after the continuation of middlewares k-1..0 runs, in
\* reverse order.
C16_ShortCircuit ==
    \A k \in 0..(MaxMiddlewares - 1) :
        /\ (k + 1 \in DOMAIN mw_chain /\ mw_chain[k + 1].calls = 0) =>
              \A i \in DOMAIN mw_log :
                  mw_log[i].at <= k /\ mw_log[i].ev # "handle"
        /\ C16_ShortCircuitAt(k) =>
              /\ Len(mw_log) <= 2 * k + 1
              /\ mw_log = SubSeq(C16_ShortLog(k), 1, Len(mw_log))
              /\ \A j \in DOMAIN mw_stack :
                    (mw_stack[j].index = k - 1 /\ mw_stack[j].got # Nothing) =>
                        mw_stack[j].got = Returned(<<"middleware", k>>)
              /\ mw_result # Nothing =>
                    /\ mw_log = C16_ShortLog(k)
                    /\ k = 0 => mw_result = Returned(<<"middleware", 0>>)

\* The middle one of three middlewares returned without calling its
\* continuation, and the first has got its value.
C16_Witness ==
    /\ Len(mw_chain) = 3 /\ C16_ShortCircuitAt(1)
    /\ mw_stack # <<>> /\ Top(mw_stack).index = 0
    /\ Top(mw_stack).got = Returned(<<"middleware", 1>>)

\* The events of kind ev in the log, in order.
EventsOf(ev) == SelectSeq(mw_log, LAMBDA x : x.ev = ev)

\* The exception surfacing at the continuation calls of middlewares k-1..0.
C17_Surfacing(k) == [i \in 1..k |-> Event("error", k - i)]

\* Whether o raises: a middleware, or the terminal handler for o = N.
C17_Raises(o) ==
    IF o = Len(mw_chain) THEN mw_handler = "raises"
    ELSE mw_chain[o + 1].raises # "no"

\* Middleware k raises before calling its continuation, or k = N and the
\* terminal handler raises; the middlewares before k call their continuation,
\* raise nothing themselves and catch nothing.
C17_RaisesAt(k) ==
    /\ k <= Len(mw_chain)
    /\ IF k = Len(mw_chain) THEN mw_handler = "raises"
       ELSE mw_chain[k + 1].raises = "before"
    /\ \A i \in 1..k :
          /\ mw_chain[i].calls >= 1 /\ mw_chain[i].raises = "no"
          /\ ~mw_chain[i].catches

\* The log of such a run: in through 0..k (the handler for k = N), then the
\* exception at the continuation calls of k-1..0.
C17_RaiseLog(k) ==
    [i \in 1..(k + 1) |->
        IF i = k + 1 /\ k = Len(mw_chain) THEN Event("handle", k)
        ELSE Event("enter", i - 1)]
    \o C17_Surfacing(k)

\* C17: if middleware k or the terminal handler raises, the pipeline neither
\* catches nor transforms the error: it surfaces at the continuation call of
\* middleware k-1, then k-2, ..., then at run's caller, and no middleware
\* after k (and, for a middleware failure, no terminal handler) runs.
C17_ErrorPropagation ==
    /\ \A k \in 0..MaxMiddlewares :
          C17_RaisesAt(k) =>
              /\ Len(mw_log) <= 2 * k + 1
              /\ mw_log = SubSeq(C17_RaiseLog(k), 1, Len(mw_log))
              /\ mw_result # Nothing =>
                    mw_result = Exception(k) /\ mw_log = C17_RaiseLog(k)
    /\ (\A i \in DOMAIN mw_chain : ~mw_chain[i].catches) =>
          /\ mw_pending.kind = "error" =>
                \E o \in 0..Len(mw_chain) :
                    mw_pending = Exception(o) /\ C17_Raises(o)
          /\ mw_result.kind = "error" =>
                \E o \in 0..Len(mw_chain) :
                    /\ mw_result = Exception(o) /\ C17_Raises(o)
                    /\ EventsOf("error") = C17_Surfacing(o)
                    /\ SubSeq(mw_log, Len(mw_log) - o + 1, Len(mw_log))
                           = C17_Surfacing(o)
          /\ mw_result.kind = "value" => EventsOf("error") = <<>>

\* The last of three middlewares raised and run has passed the exception on
\* to its caller.
C17_Witness ==
    /\ Len(mw_chain) = 3 /\ C17_RaisesAt(2)
    /\ mw_result = Exception(2)
    /\ EventsOf("error") = C17_Surfacing(2)

\* C18: __call__ increments the in-flight counter once on entry and
\* decrements it once on every exit path (normal response, static file,
\* middleware short-circuit, exception out of the pipeline); under any
\* interleaving of requests the counter is never negative, equals the number
\* of requests between entry and exit, and is 0 when there are none.
C18_InFlightCounter ==
    /\ app_active >= 0
    /\ app_active = Cardinality(InFlight)
    /\ (\A t \in Threads : app_t[t].pc = "idle") => app_active = 0

\* One request is leaving with an exception while another is in the
\* pipeline, and both are counted.
C18_Witness ==
    /\ app_active = 2
    /\ \E t, u \in Threads :
          /\ app_t[t].pc = "dec_lock" /\ app_t[t].path = "exception"
          /\ app_t[u].pc = "dispatch"

\* C19: once shutdown has begun, every request that arrives afterwards is
\* answered 503 with Connection: close, never enters the middleware pipeline,
\* static-file serving or a route handler, and does not change the in-flight
\* counter at any point.
C19_LateRequestsRejected ==
    [][\A t \in Threads :
          (app_t[t].late /\ app_t'[t] # app_t[t]) =>
              /\ app_active' = app_active
              /\ app_t'[t].pc # "dispatch"
              /\ app_t'[t].pc = "dec_lock" => app_t'[t].path = "503"]_vars

\* C20: after shutdown is triggered, the drain wait ends as soon as the
\* in-flight counter is observed to be zero, and otherwise once the deadline
\* has elapsed, even if in-flight requests never complete; in both cases
\* teardown then runs; on a deadline exit the number of requests still in
\* flight is reported, and shutdown does nothing to those requests.
C20_DrainEnds ==
    /\ [][app_sd' # app_sd =>
            /\ (app_sd.pc = "wait" /\ app_active = 0) =>
                  (app_sd'.pc = "warn" /\ app_sd'.ended = "drained")
            /\ (app_sd.pc = "wait_time" /\ clock >= app_sd.deadline) =>
                  (app_sd'.pc = "warn" /\ app_sd'.ended = "deadline")
            /\ (app_sd.pc # "warn" /\ app_sd'.pc = "warn") =>
                  (app_active = 0 \/ clock >= app_sd.deadline)
            /\ (app_sd.pc = "warn" /\ app_active > 0) => app_sd'.pc = "report"
            /\ app_sd.pc = "report" => app_sd'.reported = <<app_active>>
            /\ app_t' = app_t /\ app_active' = app_active]_vars
    /\ app_shutting_down ~> (app_sd.pc \in {"teardown", "done"})

\* The deadline has passed with a request still in the pipeline: it was
\* reported, teardown has run and the request is still there.
C20_Witness ==
    /\ app_sd.pc = "done" /\ app_sd.ended = "deadline"
    /\ app_sd.deadline > 0
    /\ app_sd.reported = <<1>>
    /\ \E t \in Threads : app_t[t].pc = "dispatch" /\ ~app_t[t].late

\* C22: TokenBucket.remaining returns min(capacity, tokens + elapsed *
\* refill_rate) and changes neither tokens nor last_refill, at no step of
\* the read: the consume calls find the bucket as the consume calls left it,
\* whatever remaining reads are made between them (no double refill).
C22_RemainingIsPure ==
    [][\A t \in Threads :
          /\ (tbt[t].pc = "rem" /\ tbt'[t].pc = "rem_release") =>
                LET grown == tb.tokens + (tbt[t].now - tb.last) * tb.num
                IN  tbt'[t].val = IF grown < tb.capacity * tb.den
                                  THEN grown ELSE tb.capacity * tb.den
          /\ (tbt'[t] # tbt[t]
                /\ (tbt[t].pc \in {"rem", "rem_release"} \/ tbt'[t].pc = "rem")) =>
                tb' = tb]_vars

\* A remaining read made after a successful consume and some time: it
\* returns more than the stored tokens, which it leaves as they were.
C22_Witness ==
    \E t \in Threads :
        /\ tbt[t].pc = "rem_release"
        /\ tb_stat.succ > 0
        /\ tb.last < tbt[t].now
        /\ tbt[t].val > tb.tokens

\* C23: whenever SlidingWindowCounter.reset_at can be read (its lock is
\* free), it returns the timestamp of the oldest hit inside the trailing
\* window (now - window, now] plus window, or now + window when no hit is
\* inside the window; the value is therefore later than now.
C23_ResetAtInWindow ==
    sw_lock = 0 =>
        LET inside == SelectSeq(sw.hits, LAMBDA x : x > clock - sw.window)
            expected == IF inside # <<>> THEN inside[1] + sw.window
                                         ELSE clock + sw.window
        IN  /\ SWResetAt(sw, clock) = expected
            /\ SWResetAt(sw, clock) > clock

\* The number of times execute(j) is entered when nothing raises: once for
\* each call of the continuation made by the middlewares before j.
RECURSIVE C26_Runs(_)
C26_Runs(j) == IF j = 0 THEN 1 ELSE C26_Runs(j - 1) * mw_chain[j].calls

\* Neither a middleware nor the terminal handler raises.
C26_NothingRaises ==
    /\ mw_handler = "returns"
    /\ \A i \in DOMAIN mw_chain : mw_chain[i].raises = "no"

\* C26: run does not guard the continuation.  When middleware i calls it k
\* times, the middlewares after i and the terminal handler each run k times
\* (once per call, and once per run of i), and each call returns the result
\* of its own run of the rest of the chain: where every middleware passes on
\* what its last call returned, run returns what the last run of the handler
\* returned.
C26_RepeatedContinuation ==
    (C26_NothingRaises /\ mw_result # Nothing) =>
        LET n == Len(mw_chain)
        IN  /\ \A j \in 0..(n - 1) :
                  Len(SelectSeq(mw_log, LAMBDA x : x = Event("enter", j)))
                      = C26_Runs(j)
            /\ HandlerRuns(mw_log) = C26_Runs(n)
            /\ (\A i \in DOMAIN mw_chain :
                      mw_chain[i].calls >= 1 /\ mw_chain[i].returns = "next") =>
                  mw_result = Returned(<<"handler", C26_Runs(n)>>)

\* The first of three middlewares called its continuation twice: the two
\* after it ran twice each, the handler twice, and run returned what the
\* second run of the handler returned.
C26_Witness ==
    /\ Len(mw_chain) = 3
    /\ mw_chain[1].calls = 2
    /\ mw_chain[2] = Behaviour(1, "no", FALSE, "next")
    /\ mw_chain[3] = Behaviour(1, "no", FALSE, "next")
    /\ mw_handler = "returns"
    /\ HandlerRuns(mw_log) = 2
    /\ mw_result = Returned(<<"handler", 2>>)

\* The requests that passed the test of _shutting_down and have not yet
\* taken the lock for their decrement.
C27_Served ==
    {t \in Threads :
        \/ app_t[t].pc = "dispatch"
        \/ app_t[t].pc = "dec_lock" /\ app_t[t].path # "503"}

\* C27: under any interleaving of request threads with the shutdown thread,
\* when the drain wait ends because _active_requests was read as zero, no
\* request is between its increment and its decrement at that moment, no
\* request passes the test of _shutting_down from then on, and so no
\* request that passed it is under way during the teardown that follows.
C27_DrainedMeansQuiet ==
    /\ [][(app_sd.pc = "wait" /\ app_sd'.pc = "warn") => InFlight = {}]_vars
    /\ [][app_sd.ended = "drained" =>
             \A t \in Threads :
                 (app_t[t].pc = "check" /\ app_t'[t].pc # "check") =>
                     (app_t'[t].pc = "dec_lock" /\ app_t'[t].path = "503")]_vars
    /\ [](app_sd.ended = "drained" => C27_Served = {})

\* The drain waited for a request, read the counter as zero, and a request
\* that arrived later is being turned away while the teardown is due.
C27_Witness ==
    /\ app_sd.pc = "teardown"
    /\ app_sd.ended = "drained"
    /\ clock > 0
    /\ \E t \in Threads : app_t[t].pc = "dec_lock" /\ app_t[t].path = "503"

\* The steps that are there to be made: all but those of the resources that
\* are None.
C21_Present(k) ==
    (k - 1) \in DOMAIN gs_res => gs_res[k - 1] # "None"

\* The steps that call a hook.
C21_HookSteps ==
    {1 + Len(Resources) + i : i \in DOMAIN gs_hooks}

\* C21: during shutdown the task queue, the scheduler and the database are
\* torn down in that order, then every registered hook is invoked in
\* registration order, a hook that raises stops neither the hooks after it
\* nor the rest of the sequence, and once the shutdown is complete every hook
\* has been invoked exactly once.
C21_HooksAfterTeardown ==
    /\ [][\A k \in DOMAIN gs_done :
             gs_done'[k] > gs_done[k] =>
                 \A j \in 1..(k - 1) : C21_Present(j) => gs_done[j] >= 1]_vars
    /\ [][\A c \in Callers :
             gs_t[c].pc = "hooks" => gs_t'[c].pc \in {"hooks", "done"}]_vars
    /\ []((\E c \in Callers : gs_t[c].pc = "done") =>
             /\ \A k \in C21_HookSteps : gs_done[k] = 1
             /\ gs_done[Len(gs_done)] >= 1)

\* C30: however many times shutdown is triggered (signals during the drain,
\* concurrent calls, the finally of run), the drain, the teardown of each
\* resource, each shutdown hook and the server's shutdown are executed at
\* most once, and _shutting_down, once true, stays true.
C30_ShutdownOnce ==
    /\ [](\A k \in DOMAIN gs_done : gs_done[k] <= 1)
    /\ [][app_shutting_down => app_shutting_down']_vars

\* What a bucket was built with: its limit and its window (for a TokenBucket
\* its capacity and its refill rate, limit / window).
C29_Limit(b) == IF b.kind = "TokenBucket" THEN b.capacity ELSE b.limit
C29_Built(b) ==
    IF b.kind = "TokenBucket" THEN <<b.capacity, b.num, b.den>>
    ELSE <<b.limit, b.window>>

\* The step is a request for route r: of the calls made on the limiter only
\* a request changes the buckets or the last request.  (A request that
\* changes neither is a denial that repeats the one before it.)
C29_IsRequest(r) ==
    /\ rl_last'.route = r.name
    /\ rl_ops' # rl_ops
    /\ rl_last' # rl_last \/ rl_buckets' # rl_buckets

\* The request goes as far as the rate check of its wrapper.
C29_IsChecked(r) ==
    /\ rl_enabled
    /\ rl_last'.res # "ValueError"
    /\ r.kind # "dynamic" => rl_last'.key \notin rl_whitelist
    /\ r.kind \notin {"dynamic", "shared_limit"} =>
          rl_last'.key \notin rl_blacklist

\* C29: a bucket's limit and window are those of the request that created
\* it.  A later request on the same (client key, scope), whatever rate its
\* wrapper was configured with or rate_func returned for it, is decided by
\* the existing bucket, which keeps the limit and window it was built with.
C29_BucketRateFixed ==
    [][\A r \in Routes :
          LET bk == BucketKey(rl_last'.key, RouteScope(r))
          IN  (/\ C29_IsRequest(r)
               /\ C29_IsChecked(r)
               /\ bk \in DOMAIN rl_buckets) =>
                  LET h == BucketCheck(rl_buckets[bk], clock,
                                       IF r.kind = "dynamic" THEN 1 ELSE r.cost)
                  IN  /\ rl_buckets'[bk] = h.b
                      /\ C29_Built(rl_buckets'[bk]) = C29_Built(rl_buckets[bk])
                      /\ rl_last'.res = IF h.ok THEN "handler" ELSE "429"]_vars

\* A request of the dynamic route for which rate_func returned another
\* limit than the one its bucket was created with, and which that bucket
\* turned away: the 429 names the limit of the request, not the bucket's.
C29_Witness ==
    /\ rl_last.kind = "dynamic"
    /\ rl_last.exceeded.called
    /\ \E b \in rl_last.exceeded.bucket : C29_Limit(b) # rl_last.exceeded.limit

\* The bucket objects created for bucket key bk.
C25_CreatedFor(bk) == {id \in DOMAIN reg_objs : reg_objs[id].key = bk}

\* C25: when several threads concurrently make the first request for one
\* (client key, scope), one bucket is created for it and every one of them
\* checks that bucket; the lookups and insertions made for other keys never
\* lose a bucket that is in the map nor put another in its place.
C25_OneBucketPerKey ==
    /\ [](\A t \in Threads :
            /\ reg_t[t].pc \in {"release", "return", "check"} =>
                  Cardinality(C25_CreatedFor(reg_t[t].key)) = 1
            /\ reg_t[t].pc = "check" =>
                  /\ reg_t[t].bucket \in C25_CreatedFor(reg_t[t].key)
                  /\ reg_map[reg_t[t].key] = reg_t[t].bucket)
    /\ [][\A bk \in DOMAIN reg_map :
             bk \in DOMAIN reg_map' /\ reg_map'[bk] = reg_map[bk]]_vars

\* Two threads made the first two requests, both for the same key, at the
\* same time: both hold the one bucket, which neither has hit yet.
C25_Witness ==
    /\ reg_calls = 2
    /\ Len(reg_objs) = 1
    /\ \E t1, t2 \in Threads :
          /\ t1 # t2
          /\ reg_t[t1].pc = "check" /\ reg_t[t2].pc = "check"
          /\ reg_t[t1].key = reg_t[t2].key
          /\ reg_t[t1].bucket = reg_t[t2].bucket
          /\ reg_t[t1].bucket # 0

\* The most recent activity of bucket object id: its creation or the last
\* hit made on it, let through or not.
C24_LastActivity(id) == Max(reg_objs[id].born, reg_objs[id].used)

\* Requests of bucket key bk let through at a time in lo..hi.
C24_Admitted(bk, lo, hi) ==
    Cardinality({a \in reg_log : a.key = bk /\ a.time >= lo /\ a.time <= hi})

\* C24: _cleanup_expired removes a bucket iff its most recent activity is
\* older than 2 * window, so a bucket created or hit within the last
\* 2 * window stays, and running the cleanup at any moment, concurrently with
\* requests too, never gives a client more than limit allowed hits in a
\* window.
C24_CleanupKeepsActive ==
    /\ [][CleanupExpired =>
             \A bk \in DOMAIN reg_map :
                 reg_map[bk] # 0 =>
                     (bk \notin DOMAIN reg_map'
                        <=> clock - C24_LastActivity(reg_map[bk])
                              > 2 * RegRoute.rate.window)]_vars
    /\ [](\A k \in ClientKeys :
            C24_Admitted(BucketKey(k, RouteScope(RegRoute)),
                         clock - RegRoute.rate.window + 1, clock)
                <= RegRoute.rate.count)

\* C28: _get_bucket always returns a bucket of the configured strategy,
\* whatever reset() and _cleanup_expired() do in other threads: no request
\* is checked against a placeholder made by the default factory of the map,
\* and the map never holds anything but buckets.
C28_AlwaysABucket ==
    /\ \A bk \in DOMAIN reg_map :
          /\ reg_map[bk] # 0
          /\ reg_objs[reg_map[bk]].b.kind
                = NewBucket(reg_strategy, RegRoute.rate.count,
                            RegRoute.rate.window, clock).kind
    /\ \A t \in Threads : reg_t[t].pc = "check" => reg_t[t].bucket # 0
    /\ reg_last.res # "AttributeError"

====
